---- MODULE Spec2Model ----
(***************************************************************************)
(* A model of the `break` timer program: the Database (store) of           *)
(* src/src/database.rs with its lock-guarded persistence, the foreground   *)
(* commands of src/src/main.rs and the daemon loop of src/src/daemon.rs.   *)
(*                                                                         *)
(* Specifications:                                                         *)
(*   Spec        one in-memory Database driven through its public methods  *)
(*   SpecOrder   one Database and the methods that change its active list *)
(*   SpecHistory one Database whose timers are added and completed up to   *)
(*               and beyond the history limit                              *)
(*   SpecTxn     foreground processes running with_transaction and load    *)
(*               against one backing file                                  *)
(*   SpecCorrupt SpecTxn, started on a backing file that is whole, cut     *)
(*               short, empty or followed by stray bytes                   *)
(*   SpecCrash   SpecTxn, where a process may die at any point             *)
(*   SpecDaemon  SpecTxn, with a daemon process running an iteration of    *)
(*               its loop: load, handle the expired timers, save           *)
(*   SpecLive    one foreground process and the daemon running its whole   *)
(*               loop, under fairness of the daemon and the clock          *)
(*   SpecMarker  one foreground process, daemons that die, reused pids     *)
(*   SpecIter    the daemon alone, its loop one statement at a time        *)
(*   SpecLocks   that daemon and one foreground process on the same file   *)
(*   SpecSleep   the daemon's sleep computation on given Databases         *)
(*   SpecSpawn   foreground commands that add timers and start the daemon  *)
(*               when they find none running, and the daemons they start   *)
(***************************************************************************)
EXTENDS Integers, Sequences, FiniteSets, TLC

VARIABLES
    now,        \* the clock (OffsetDateTime::now_utc), in ticks
    uuids,      \* how many Uuid::new_v4() values were drawn so far
    db,         \* Spec: the Database value under test
    last,       \* Spec: the last method called on db, its arguments and result
    issued,     \* Spec: the ids add_timer returned so far, in the order of the calls
    done,       \* SpecHistory: the timers handed to add_to_history since history
                \* was last empty by construction or clear_history, latest first
    file,       \* the backing file timers.json: whether it exists, and its content
    excl,       \* the process holding the exclusive lock on the file, or NoProc
    shared,     \* the processes holding a shared lock on the file
    pc,         \* per process: the place in the code it is at
    cmd,        \* per process: the call it is running, with its local values
    mem,        \* per process: its in-memory Database
    out,        \* per process: what its last call returned
    started,    \* how many foreground commands were started
    acked,      \* the timers returned by committed add transactions, in commit order
    hiNext,     \* the highest next_id a completed write has persisted
    pid_file,   \* the content of daemon.pid: the daemon that wrote it, or NoProc
                \* when there is no such file
    notified    \* the uuids of the timers a daemon has shown a notification for

storeVars == <<db, last, issued, done>>
fileVars == <<file, excl, shared, pc, cmd, mem, out, started, acked, hiNext,
              pid_file, notified>>
vars == <<now, uuids, db, last, issued, done,
          file, excl, shared, pc, cmd, mem, out, started, acked, hiNext,
          pid_file, notified>>

---------------------------------------------------------------------------
(* Bounds of the model                                                     *)

\* Clock ticks per second: timestamps are finer than the persisted second.
TicksPerSec == 2
\* The clock stops advancing at MaxTime ticks.
MaxTime == 1
\* add_timer is called only while next_id <= MaxIssued (far below u32::MAX,
\* so `self.next_id += 1` never wraps within the model).
MaxIssued == 2
\* Spec copies an active timer into history (add_to_history without removal)
\* only while history is shorter than MaxHistLen; complete_timer is not bounded.
MaxHistLen == 1
\* Foreground commands started in SpecTxn, SpecCrash and SpecDaemon.
MaxCmds == 3
\* The clock of SpecExpired stops advancing at MaxExpTime ticks.
MaxExpTime == 3
\* The clock of SpecIter stops advancing at MaxIterTime ticks.
MaxIterTime == 6
\* SpecHistory hands timers 1..MaxCompleted to history, past MAX_HISTORY.
MaxCompleted == 25
\* SpecHistory keeps several timers active at once, to be completed in any
\* order, only while next_id <= MaxOverlap; later timers are completed one
\* by one.
MaxOverlap == 4

---------------------------------------------------------------------------
(* Program constants                                                       *)

MAX_DURATION_SECONDS == 31536000
MAX_HISTORY == 20
SECONDS_PER_HOUR == 3600

---------------------------------------------------------------------------
(* Inputs                                                                  *)

\* The arguments of add_timer:
\* <<message, duration_seconds, urgent, sound, recurring>>
AddInputs ==
    { <<"tea", 0, TRUE, TRUE, FALSE>>,
      <<"nap", MAX_DURATION_SECONDS, FALSE, TRUE, TRUE>>,
      <<"sabbatical", MAX_DURATION_SECONDS + 1, FALSE, FALSE, FALSE>> }
\* The id arguments tried on a Database: every id it issued and the next one,
\* which is in neither list
Ids(d) == 1..d.next_id

\* The processes: two foreground commands at a time, and the daemon started
\* by hand
Fg == {"fg1", "fg2"}
Daemon == "daemon"
\* ... and the daemon processes there can be once commands spawn them
Daemons == {Daemon, "daemon2"}
Procs == Fg \cup Daemons
NoProc == "nobody"

---------------------------------------------------------------------------
(* Option<Timer>: None is <<>>, Some(t) is <<t>>                           *)

None == <<>>
Some(t) == <<t>>

\* time::Duration::seconds(n), in ticks
Seconds(n) == n * TicksPerSec

---------------------------------------------------------------------------
(* Database (src/src/database.rs)                                          *)

\* Database::new
New == [timers |-> <<>>, history |-> <<>>, next_id |-> 1]

\* Vec::iter().position(|t| t.id == id): the first index, 0 when there is none
position(timers, id) ==
    IF \E i \in 1..Len(timers) : timers[i].id = id
    THEN CHOOSE i \in 1..Len(timers) :
            /\ timers[i].id = id
            /\ \A j \in 1..(i - 1) : timers[j].id # id
    ELSE 0

\* Vec::remove(pos): the vector without its element at pos, order kept
vec_remove(v, pos) == SubSeq(v, 1, pos - 1) \o SubSeq(v, pos + 1, Len(v))

\* Vec::truncate(n)
truncate(v, n) == IF Len(v) > n THEN SubSeq(v, 1, n) ELSE v

\* add_timer with the timer inserted at the front of the active list
add_timer_front(d, message, duration_seconds, urgent, sound, recurring, t, u) ==
    IF duration_seconds > MAX_DURATION_SECONDS
    THEN [db |-> d, ret |-> [ok |-> FALSE, err |-> "Duration too large"]]
    ELSE LET timer == [uuid |-> u, id |-> d.next_id, message |-> message,
                       duration_seconds |-> duration_seconds, created_at |-> t,
                       due_at |-> t + Seconds(duration_seconds),
                       urgent |-> urgent, sound |-> sound, recurring |-> recurring]
         IN [db |-> [d EXCEPT !.next_id = d.next_id + 1,
                              !.timers = <<timer>> \o d.timers],
             ret |-> [ok |-> TRUE, timer |-> timer]]

\* add_timer rejecting the maximum duration itself (>= for >)
add_timer_ge(d, message, duration_seconds, urgent, sound, recurring, t, u) ==
    IF duration_seconds >= MAX_DURATION_SECONDS
    THEN [db |-> d, ret |-> [ok |-> FALSE, err |-> "Duration too large"]]
    ELSE LET timer == [uuid |-> u, id |-> d.next_id, message |-> message,
                       duration_seconds |-> duration_seconds, created_at |-> t,
                       due_at |-> t + Seconds(duration_seconds),
                       urgent |-> urgent, sound |-> sound, recurring |-> recurring]
         IN [db |-> [d EXCEPT !.next_id = d.next_id + 1,
                              !.timers = Append(d.timers, timer)],
             ret |-> [ok |-> TRUE, timer |-> timer]]

\* Database::add_timer; t is the clock read, u the uuid drawn
add_timer(d, message, duration_seconds, urgent, sound, recurring, t, u) ==
    IF duration_seconds > MAX_DURATION_SECONDS
    THEN [db |-> d, ret |-> [ok |-> FALSE, err |-> "Duration too large"]]
    ELSE LET timer == [uuid |-> u,
                       id |-> d.next_id,
                       message |-> message,
                       duration_seconds |-> duration_seconds,
                       created_at |-> t,
                       due_at |-> t + Seconds(duration_seconds),
                       urgent |-> urgent,
                       sound |-> sound,
                       recurring |-> recurring]
         IN [db |-> [d EXCEPT !.next_id = d.next_id + 1,
                              !.timers = Append(d.timers, timer)],
             ret |-> [ok |-> TRUE, timer |-> timer]]

\* reset_timer stamping created_at only: due_at keeps its old value
reset_timer_keep_due(d, id, t) ==
    LET pos == position(d.timers, id) IN
    IF pos # 0
    THEN LET timer == [d.timers[pos] EXCEPT !.created_at = t]
         IN [db |-> [d EXCEPT !.timers[pos] = timer], ret |-> Some(timer)]
    ELSE [db |-> d, ret |-> None]

\* reset_timer moving the restamped timer to the end of the active list
reset_timer_to_back(d, id, t) ==
    LET pos == position(d.timers, id) IN
    IF pos # 0
    THEN LET timer == [d.timers[pos] EXCEPT
                          !.due_at = t + Seconds(d.timers[pos].duration_seconds),
                          !.created_at = t]
         IN [db |-> [d EXCEPT !.timers = Append(vec_remove(d.timers, pos), timer)],
             ret |-> Some(timer)]
    ELSE [db |-> d, ret |-> None]

\* Database::reset_timer
reset_timer(d, id, t) ==
    LET pos == position(d.timers, id) IN
    IF pos # 0
    THEN LET timer == [d.timers[pos] EXCEPT
                          !.due_at = t + Seconds(d.timers[pos].duration_seconds),
                          !.created_at = t]
         IN [db |-> [d EXCEPT !.timers[pos] = timer], ret |-> Some(timer)]
    ELSE [db |-> d, ret |-> None]

\* remove_timer that, for an id it does not find, removes the last timer
remove_timer_or_last(d, id) ==
    LET pos == position(d.timers, id) IN
    IF pos # 0
    THEN [db |-> [d EXCEPT !.timers = vec_remove(d.timers, pos)],
          ret |-> Some(d.timers[pos])]
    ELSE IF d.timers # <<>>
         THEN [db |-> [d EXCEPT !.timers = vec_remove(d.timers, Len(d.timers))],
               ret |-> None]
         ELSE [db |-> d, ret |-> None]

\* remove_timer that files the removed timer in history
remove_timer_archive(d, id) ==
    LET pos == position(d.timers, id) IN
    IF pos # 0
    THEN [db |-> [d EXCEPT !.timers = vec_remove(d.timers, pos),
                           !.history = <<d.timers[pos]>> \o d.history],
          ret |-> Some(d.timers[pos])]
    ELSE [db |-> d, ret |-> None]

\* remove_timer handing the removed id back to the counter
remove_timer_reuse(d, id) ==
    LET pos == position(d.timers, id) IN
    IF pos # 0
    THEN [db |-> [d EXCEPT !.timers = vec_remove(d.timers, pos), !.next_id = id],
          ret |-> Some(d.timers[pos])]
    ELSE [db |-> d, ret |-> None]

\* Database::remove_timer
remove_timer(d, id) ==
    LET pos == position(d.timers, id) IN
    IF pos # 0
    THEN [db |-> [d EXCEPT !.timers = vec_remove(d.timers, pos)],
          ret |-> Some(d.timers[pos])]
    ELSE [db |-> d, ret |-> None]

\* add_to_history keeping the oldest MAX_HISTORY entries: at the limit the
\* new entry is the one cut off
add_to_history_keep_old(d, timer) ==
    [d EXCEPT !.history = IF Len(d.history) >= MAX_HISTORY
                          THEN d.history
                          ELSE <<timer>> \o d.history]

\* Database::add_to_history
add_to_history(d, timer) ==
    [d EXCEPT !.history = truncate(<<timer>> \o d.history, MAX_HISTORY)]

\* complete_timer removing the last active timer instead of the one found
complete_timer_pop(d, id) ==
    LET pos == position(d.timers, id) IN
    IF pos # 0
    THEN LET timer == d.timers[pos]
             removed == [d EXCEPT !.timers = vec_remove(d.timers, Len(d.timers))]
         IN [db |-> add_to_history(removed, timer), ret |-> Some(timer)]
    ELSE [db |-> d, ret |-> None]

\* complete_timer taking the first active timer for the one of the given id
complete_timer_first(d, id) ==
    LET pos == position(d.timers, id) IN
    IF pos # 0
    THEN LET timer == d.timers[1]
             removed == [d EXCEPT !.timers = vec_remove(d.timers, 1)]
         IN [db |-> add_to_history(removed, timer), ret |-> Some(timer)]
    ELSE [db |-> d, ret |-> None]

\* Database::complete_timer
complete_timer(d, id) ==
    LET pos == position(d.timers, id) IN
    IF pos # 0
    THEN LET timer == d.timers[pos]
             removed == [d EXCEPT !.timers = vec_remove(d.timers, pos)]
         IN [db |-> add_to_history(removed, timer), ret |-> Some(timer)]
    ELSE [db |-> d, ret |-> None]

\* clear_all wiping history as well
clear_all_both(d) == [d EXCEPT !.timers = <<>>, !.history = <<>>]

\* Database::clear_all
clear_all(d) == [d EXCEPT !.timers = <<>>]

\* Database::clear_history
clear_history(d) == [d EXCEPT !.history = <<>>]

\* get_expired_timers leaving out the timers due at this very instant
get_expired_timers_before(d, t) ==
    LET keep[i \in 0..Len(d.timers)] ==
            IF i = 0 THEN <<>>
            ELSE IF d.timers[i].due_at < t
                 THEN Append(keep[i - 1], d.timers[i])
                 ELSE keep[i - 1]
    IN keep[Len(d.timers)]

\* Database::get_expired_timers; t is the clock read
get_expired_timers(d, t) ==
    LET keep[i \in 0..Len(d.timers)] ==
            IF i = 0 THEN <<>>
            ELSE IF d.timers[i].due_at <= t
                 THEN Append(keep[i - 1], d.timers[i])
                 ELSE keep[i - 1]
    IN keep[Len(d.timers)]

---------------------------------------------------------------------------
(* Persistence (src/src/database.rs): the file content is a sequence of    *)
(* tokens, one per brace, key and timer of the pretty-printed JSON.        *)

\* A Timer as serde writes it: created_at and due_at go through
\* time::serde::timestamp, the whole seconds of the unix timestamp
ser_timer(t) ==
    [tok |-> "timer", uuid |-> t.uuid, id |-> t.id, message |-> t.message,
     duration_seconds |-> t.duration_seconds,
     created_at |-> t.created_at \div TicksPerSec,
     due_at |-> t.due_at \div TicksPerSec,
     urgent |-> t.urgent, sound |-> t.sound, recurring |-> t.recurring]

\* ... and as serde reads it back
de_timer(k) ==
    [uuid |-> k.uuid, id |-> k.id, message |-> k.message,
     duration_seconds |-> k.duration_seconds,
     created_at |-> k.created_at * TicksPerSec,
     due_at |-> k.due_at * TicksPerSec,
     urgent |-> k.urgent, sound |-> k.sound, recurring |-> k.recurring]

ser_timers(v) ==
    LET acc[i \in 0..Len(v)] ==
            IF i = 0 THEN <<>> ELSE Append(acc[i - 1], ser_timer(v[i]))
    IN acc[Len(v)]

\* the timers read from bytes[from + 1 .. from + n]
de_timers(bytes, from, n) ==
    LET acc[i \in 0..n] ==
            IF i = 0 THEN <<>> ELSE Append(acc[i - 1], de_timer(bytes[from + i]))
    IN acc[n]

\* a serialization that leaves the history out
to_string_pretty_no_history(d) ==
    <<[tok |-> "{"]>> \o ser_timers(d.timers)
        \o <<[tok |-> "history"]>>
        \o <<[tok |-> "next_id", value |-> d.next_id], [tok |-> "}"]>>

\* serde_json::to_string_pretty(&Database): { timers, history, next_id }
to_string_pretty(d) ==
    <<[tok |-> "{"]>> \o ser_timers(d.timers)
        \o <<[tok |-> "history"]>> \o ser_timers(d.history)
        \o <<[tok |-> "next_id", value |-> d.next_id], [tok |-> "}"]>>

\* a parser that takes whatever it cannot read for a new Database
from_str_repair(bytes) ==
    IF /\ Len(bytes) >= 4
       /\ bytes[1].tok = "{"
       /\ bytes[Len(bytes)].tok = "}"
       /\ bytes[Len(bytes) - 1].tok = "next_id"
       /\ Cardinality({k \in 1..Len(bytes) : bytes[k].tok = "history"}) = 1
       /\ \A k \in 2..(Len(bytes) - 2) : bytes[k].tok \in {"timer", "history"}
    THEN LET at == CHOOSE k \in 1..Len(bytes) : bytes[k].tok = "history"
         IN [ok |-> TRUE,
             db |-> [timers |-> de_timers(bytes, 1, at - 2),
                     history |-> de_timers(bytes, at, Len(bytes) - 2 - at),
                     next_id |-> bytes[Len(bytes) - 1].value]]
    ELSE [ok |-> TRUE, db |-> New]

\* serde_json::from_str::<Database>: an error for anything that is not one
\* complete document (empty input, a cut document, trailing characters)
from_str(bytes) ==
    LET n == Len(bytes)
        h == {k \in 1..n : bytes[k].tok = "history"}
    IN IF /\ n >= 4
          /\ bytes[1].tok = "{"
          /\ bytes[n].tok = "}"
          /\ bytes[n - 1].tok = "next_id"
          /\ Cardinality(h) = 1
          /\ \A k \in 2..(n - 2) : bytes[k].tok \in {"timer", "history"}
       THEN LET at == CHOOSE k \in h : TRUE
            IN [ok |-> TRUE,
                db |-> [timers |-> de_timers(bytes, 1, at - 2),
                        history |-> de_timers(bytes, at, n - 2 - at),
                        next_id |-> bytes[n - 1].value]]
       ELSE [ok |-> FALSE]

\* write_all + flush through a handle at offset 0: the bytes written replace
\* the start of the file, what lay beyond them stays
overwrite(old, new) == new \o SubSeq(old, Len(new) + 1, Len(old))

\* lock_exclusive that never waits
lock_exclusive_nowait(p) == TRUE

\* FileExt::lock_exclusive (flock LOCK_EX) returns once no other process
\* holds a lock on the file
CanLockExclusive(p) == excl = NoProc /\ shared \subseteq {p}

\* FileExt::lock_shared (flock LOCK_SH) returns once no process holds the
\* exclusive lock
CanLockShared(p) == excl = NoProc

Max(a, b) == IF a >= b THEN a ELSE b
Min(a, b) == IF a <= b THEN a ELSE b

\* the next_id a write has persisted, when the content is a whole document
PersistedNext(bytes, old) ==
    IF from_str(bytes).ok THEN Max(old, from_str(bytes).db.next_id) ELSE old

---------------------------------------------------------------------------
(* Spec: one Database value, driven through its public methods             *)

InitFile ==
    /\ file = [exists |-> FALSE, bytes |-> <<>>]
    /\ excl = NoProc
    /\ shared = {}
    /\ pc = [p \in Procs |-> "idle"]
    /\ cmd = [p \in Procs |-> [op |-> "none"]]
    /\ mem = [p \in Procs |-> New]
    /\ out = [p \in Procs |-> [op |-> "none"]]
    /\ started = 0
    /\ acked = <<>>
    /\ hiNext = 1
    /\ pid_file = NoProc
    /\ notified = {}

Init ==
    /\ now = 0
    /\ uuids = 0
    /\ db = New
    /\ last = [op |-> "new"]
    /\ issued = <<>>
    /\ done = <<>>
    /\ InitFile

\* time passes
Tick ==
    /\ now < MaxTime
    /\ now' = now + 1
    /\ UNCHANGED <<uuids, db, last, issued, done, fileVars>>

AddTimer(a) ==
    LET r == add_timer(db, a[1], a[2], a[3], a[4], a[5], now, uuids + 1)
    IN /\ db.next_id <= MaxIssued
       /\ db' = r.db
       /\ uuids' = IF r.ret.ok THEN uuids + 1 ELSE uuids
       /\ issued' = IF r.ret.ok THEN Append(issued, r.ret.timer.id) ELSE issued
       /\ last' = [op |-> "add_timer", args |-> a, ret |-> r.ret]
       /\ UNCHANGED <<now, done, fileVars>>

ResetTimer(id) ==
    LET r == reset_timer(db, id, now)
    IN /\ db' = r.db
       /\ last' = [op |-> "reset_timer", id |-> id, ret |-> r.ret]
       /\ UNCHANGED <<now, uuids, issued, done, fileVars>>

RemoveTimer(id) ==
    LET r == remove_timer(db, id)
    IN /\ db' = r.db
       /\ last' = [op |-> "remove_timer", id |-> id, ret |-> r.ret]
       /\ UNCHANGED <<now, uuids, issued, done, fileVars>>

CompleteTimer(id) ==
    LET r == complete_timer(db, id)
    IN /\ db' = r.db
       /\ last' = [op |-> "complete_timer", id |-> id, ret |-> r.ret]
       /\ UNCHANGED <<now, uuids, issued, done, fileVars>>

\* add_to_history of a copy of an active recurring timer, as the daemon does
AddToHistory(i) ==
    /\ Len(db.history) < MaxHistLen
    /\ i \in 1..Len(db.timers)
    /\ db.timers[i].recurring
    /\ db' = add_to_history(db, db.timers[i])
    /\ last' = [op |-> "add_to_history", timer |-> db.timers[i]]
    /\ UNCHANGED <<now, uuids, issued, done, fileVars>>

ClearAll ==
    /\ db' = clear_all(db)
    /\ last' = [op |-> "clear_all"]
    /\ UNCHANGED <<now, uuids, issued, done, fileVars>>

ClearHistory ==
    /\ db' = clear_history(db)
    /\ last' = [op |-> "clear_history"]
    /\ UNCHANGED <<now, uuids, issued, done, fileVars>>

GetExpiredTimers ==
    /\ last' = [op |-> "get_expired_timers", at |-> now,
                ret |-> get_expired_timers(db, now)]
    /\ UNCHANGED <<now, uuids, db, issued, done, fileVars>>

Next ==
    \/ Tick
    \/ \E a \in AddInputs : AddTimer(a)
    \/ \E id \in Ids(db) : ResetTimer(id)
    \/ \E id \in Ids(db) : RemoveTimer(id)
    \/ \E id \in Ids(db) : CompleteTimer(id)
    \/ \E i \in 1..MaxIssued : AddToHistory(i)
    \/ ClearAll
    \/ ClearHistory
    \/ GetExpiredTimers

Spec == Init /\ [][Next]_vars

---------------------------------------------------------------------------
(* SpecHistory: timers are added and handed to history, past MAX_HISTORY   *)

\* add_timer, "tea" each time
HistAdd ==
    LET r == add_timer(db, "tea", 0, TRUE, TRUE, FALSE, now, uuids + 1)
    IN /\ db.next_id <= MaxCompleted
       /\ db.timers = <<>> \/ db.next_id <= MaxOverlap
       /\ db' = r.db
       /\ uuids' = uuids + 1
       /\ issued' = Append(issued, r.ret.timer.id)
       /\ last' = [op |-> "add_timer", args |-> <<"tea", 0, TRUE, TRUE, FALSE>>, ret |-> r.ret]
       /\ UNCHANGED <<now, done, fileVars>>

\* complete_timer of an active timer
HistComplete(id) ==
    LET r == complete_timer(db, id)
    IN /\ r.ret # None
       /\ db' = r.db
       /\ done' = r.ret \o done
       /\ last' = [op |-> "complete_timer", id |-> id, ret |-> r.ret]
       /\ UNCHANGED <<now, uuids, issued, fileVars>>

\* add_to_history of a copy of an active timer, which stays active
HistCopy(i) ==
    /\ Len(done) < MaxHistLen
    /\ i \in 1..Len(db.timers)
    /\ db' = add_to_history(db, db.timers[i])
    /\ done' = <<db.timers[i]>> \o done
    /\ last' = [op |-> "add_to_history", timer |-> db.timers[i]]
    /\ UNCHANGED <<now, uuids, issued, fileVars>>

\* clear_history
HistClear ==
    /\ db.history # <<>>
    /\ db' = clear_history(db)
    /\ done' = <<>>
    /\ last' = [op |-> "clear_history"]
    /\ UNCHANGED <<now, uuids, issued, fileVars>>

NextHistory ==
    \/ HistAdd
    \/ \E id \in Ids(db) : HistComplete(id)
    \/ \E i \in 1..MaxOverlap : HistCopy(i)
    \/ HistClear

SpecHistory == Init /\ [][NextHistory]_vars

---------------------------------------------------------------------------
(* SpecExpired: timers that fall due while the clock runs, and the query   *)

\* The arguments of add_timer here: due at once, and due in a second
ExpInputs ==
    { <<"tea", 0, TRUE, TRUE, FALSE>>,
      <<"stretch", 1, FALSE, FALSE, TRUE>> }

\* time passes, long enough for a timer of a second to fall due
ExpTick ==
    /\ now < MaxExpTime
    /\ now' = now + 1
    /\ UNCHANGED <<uuids, db, last, issued, done, fileVars>>

NextExpired ==
    \/ ExpTick
    \/ \E a \in ExpInputs : AddTimer(a)
    \/ \E id \in Ids(db) : CompleteTimer(id)
    \/ \E i \in 1..MaxIssued : AddToHistory(i)
    \/ GetExpiredTimers

SpecExpired == Init /\ [][NextExpired]_vars

---------------------------------------------------------------------------
(* SpecOrder: the methods that change the active list, on one Database     *)

NextOrder ==
    \/ Tick
    \/ \E a \in ExpInputs : AddTimer(a)
    \/ \E id \in Ids(db) : ResetTimer(id)
    \/ \E id \in Ids(db) : RemoveTimer(id)
    \/ \E id \in Ids(db) : CompleteTimer(id)

SpecOrder == Init /\ [][NextOrder]_vars

---------------------------------------------------------------------------
(* Processes sharing the backing file                                      *)

\* main.rs add_timer: a foreground command starts
\* Database::with_transaction(|db| db.add_timer(..))
StartAdd(p, a) ==
    /\ pc[p] = "idle"
    /\ started < MaxCmds
    /\ started' = started + 1
    /\ cmd' = [cmd EXCEPT ![p] = [op |-> "add", args |-> a, changed |-> FALSE,
                                   pre |-> <<>>, ret |-> None]]
    /\ pc' = [pc EXCEPT ![p] = "t_open"]
    /\ UNCHANGED <<now, uuids, storeVars, file, excl, shared, mem, out, acked, hiNext,
                   pid_file, notified>>

\* main.rs list_timers / show_history: a foreground command starts
\* Database::load()
StartList(p) ==
    /\ pc[p] = "idle"
    /\ started < MaxCmds
    /\ started' = started + 1
    /\ cmd' = [cmd EXCEPT ![p] = [op |-> "list"]]
    /\ pc' = [pc EXCEPT ![p] = "l_exists"]
    /\ UNCHANGED <<now, uuids, storeVars, file, excl, shared, mem, out, acked, hiNext,
                   pid_file, notified>>

\* with_transaction: OpenOptions read+write+create, no truncation
TOpen(p) ==
    /\ pc[p] = "t_open"
    /\ file' = [file EXCEPT !.exists = TRUE]
    /\ cmd' = [cmd EXCEPT ![p].changed = (file' # file)]
    /\ pc' = [pc EXCEPT ![p] = "t_lock"]
    /\ UNCHANGED <<now, uuids, storeVars, excl, shared, mem, out, started, acked, hiNext,
                   pid_file, notified>>

\* with_transaction: FileExt::lock_exclusive(&file), blocking
TLock(p) ==
    /\ pc[p] = "t_lock"
    /\ CanLockExclusive(p)
    /\ excl' = p
    /\ cmd' = [cmd EXCEPT ![p].pre = file.bytes]
    /\ pc' = [pc EXCEPT ![p] = "t_read"]
    /\ UNCHANGED <<now, uuids, storeVars, file, shared, mem, out, started, acked, hiNext,
                   pid_file, notified>>

\* with_transaction: a zero-length file is a new Database, anything else is
\* parsed; a parse error returns, and the returning call drops (closes) its
\* handle, which releases the lock
TRead(p) ==
    /\ pc[p] = "t_read"
    /\ LET r == from_str(file.bytes)
       IN IF Len(file.bytes) = 0
          THEN /\ mem' = [mem EXCEPT ![p] = New]
               /\ pc' = [pc EXCEPT ![p] = "t_mutate"]
               /\ UNCHANGED <<excl, out>>
          ELSE IF r.ok
          THEN /\ mem' = [mem EXCEPT ![p] = r.db]
               /\ pc' = [pc EXCEPT ![p] = "t_mutate"]
               /\ UNCHANGED <<excl, out>>
          ELSE /\ excl' = NoProc
               /\ out' = [out EXCEPT ![p] = [op |-> "with_transaction", ok |-> FALSE,
                                             err |-> "corrupt",
                                             changed |-> cmd[p].changed]]
               /\ pc' = [pc EXCEPT ![p] = "idle"]
               /\ UNCHANGED mem
    /\ UNCHANGED <<now, uuids, storeVars, file, shared, cmd, started, acked, hiNext,
                   pid_file, notified>>

\* with_transaction: `let result = f(&mut db)?;` with the closure of main.rs
\* add_timer; an Err returns before anything is written
TMutate(p) ==
    /\ pc[p] = "t_mutate"
    /\ LET a == cmd[p].args
           r == add_timer(mem[p], a[1], a[2], a[3], a[4], a[5], now, uuids + 1)
       IN IF r.ret.ok
          THEN /\ mem' = [mem EXCEPT ![p] = r.db]
               /\ cmd' = [cmd EXCEPT ![p].ret = r.ret.timer]
               /\ uuids' = uuids + 1
               /\ pc' = [pc EXCEPT ![p] = "t_trunc"]
               /\ UNCHANGED <<excl, out>>
          ELSE /\ excl' = NoProc
               /\ out' = [out EXCEPT ![p] = [op |-> "with_transaction", ok |-> FALSE,
                                             err |-> "mutation",
                                             changed |-> cmd[p].changed]]
               /\ pc' = [pc EXCEPT ![p] = "idle"]
               /\ UNCHANGED <<mem, cmd, uuids>>
    /\ UNCHANGED <<now, storeVars, file, shared, started, acked, hiNext,
                   pid_file, notified>>

\* with_transaction: the second OpenOptions, write+truncate, empties the file
TTrunc(p) ==
    /\ pc[p] = "t_trunc"
    /\ file' = [exists |-> TRUE, bytes |-> <<>>]
    /\ cmd' = [cmd EXCEPT ![p].changed = TRUE]
    /\ pc' = [pc EXCEPT ![p] = "t_write"]
    /\ UNCHANGED <<now, uuids, storeVars, excl, shared, mem, out, started, acked, hiNext,
                   pid_file, notified>>

\* with_transaction: write_all + flush of the serialized Database
TWrite(p) ==
    /\ pc[p] = "t_write"
    /\ file' = [file EXCEPT !.bytes = overwrite(file.bytes, to_string_pretty(mem[p]))]
    /\ acked' = Append(acked, cmd[p].ret)
    /\ hiNext' = PersistedNext(file'.bytes, hiNext)
    /\ pc' = [pc EXCEPT ![p] = "t_unlock"]
    /\ UNCHANGED <<now, uuids, storeVars, excl, shared, cmd, mem, out, started,
                   pid_file, notified>>

\* with_transaction: FileExt::unlock on the second handle, which holds no
\* lock, then the return drops the first handle and with it the lock
TUnlock(p) ==
    /\ pc[p] = "t_unlock"
    /\ excl' = IF excl = p THEN NoProc ELSE excl
    /\ out' = [out EXCEPT ![p] = [op |-> "with_transaction", ok |-> TRUE,
                                  ret |-> cmd[p].ret, changed |-> TRUE]]
    /\ pc' = [pc EXCEPT ![p] = "idle"]
    /\ UNCHANGED <<now, uuids, storeVars, file, shared, cmd, mem, started, acked, hiNext,
                   pid_file, notified>>

\* a daemon that goes on to its next iteration when the load failed
LoadReturns_continue(p, ok, d) ==
    IF cmd[p].op = "daemon"
    THEN /\ mem' = [mem EXCEPT ![p] = IF ok THEN d ELSE mem[p]]
         /\ pc' = [pc EXCEPT ![p] = IF ok THEN "d_expired" ELSE "l_exists"]
         /\ out' = out
    ELSE /\ mem' = [mem EXCEPT ![p] = IF ok THEN d ELSE mem[p]]
         /\ pc' = [pc EXCEPT ![p] = "idle"]
         /\ out' = [out EXCEPT ![p] =
                      IF ok THEN [op |-> "load", ok |-> TRUE, db |-> d,
                                  commits |-> Len(acked)]
                      ELSE [op |-> "load", ok |-> FALSE, err |-> "corrupt",
                            commits |-> Len(acked)]]

\* Database::load returns to its caller: a foreground command ends, the
\* daemon goes on with the Database it got, or ends on the error (`?`)
LoadReturns(p, ok, d) ==
    IF cmd[p].op = "daemon"
    THEN /\ mem' = [mem EXCEPT ![p] = IF ok THEN d ELSE mem[p]]
         /\ pc' = [pc EXCEPT ![p] = IF ok THEN "d_expired" ELSE "idle"]
         /\ out' = [out EXCEPT ![p] = IF ok THEN out[p]
                                      ELSE [op |-> "run_daemon", ok |-> FALSE]]
    ELSE /\ mem' = [mem EXCEPT ![p] = IF ok THEN d ELSE mem[p]]
         /\ pc' = [pc EXCEPT ![p] = "idle"]
         /\ out' = [out EXCEPT ![p] =
                      IF ok THEN [op |-> "load", ok |-> TRUE, db |-> d,
                                  commits |-> Len(acked)]
                      ELSE [op |-> "load", ok |-> FALSE, err |-> "corrupt",
                            commits |-> Len(acked)]]

\* load: `if !path.exists() { return Ok(Self::new()) }`, else File::open
LExists(p) ==
    /\ pc[p] = "l_exists"
    /\ IF file.exists
       THEN /\ pc' = [pc EXCEPT ![p] = "l_lock"]
            /\ UNCHANGED <<mem, out>>
       ELSE LoadReturns(p, TRUE, New)
    /\ UNCHANGED <<now, uuids, storeVars, file, excl, shared, cmd, started, acked, hiNext,
                   pid_file, notified>>

\* load: FileExt::lock_shared(&file), blocking
LLock(p) ==
    /\ pc[p] = "l_lock"
    /\ CanLockShared(p)
    /\ shared' = shared \cup {p}
    /\ pc' = [pc EXCEPT ![p] = "l_read"]
    /\ UNCHANGED <<now, uuids, storeVars, file, excl, cmd, mem, out, started, acked, hiNext,
                   pid_file, notified>>

\* a load whose error return leaves the shared lock held
LRead_keeps_lock(p) ==
    /\ pc[p] = "l_read"
    /\ LET r == from_str(file.bytes)
       IN /\ IF r.ok THEN LoadReturns(p, TRUE, r.db) ELSE LoadReturns(p, FALSE, New)
          /\ shared' = IF r.ok THEN shared \ {p} ELSE shared
    /\ UNCHANGED <<now, uuids, storeVars, file, excl, cmd, started, acked, hiNext,
                   pid_file, notified>>

\* load: read_to_string and serde_json::from_str; the error returns and the
\* dropped handle releases the lock, otherwise FileExt::unlock and Ok(db)
LRead(p) ==
    /\ pc[p] = "l_read"
    /\ LET r == from_str(file.bytes)
       IN IF r.ok THEN LoadReturns(p, TRUE, r.db) ELSE LoadReturns(p, FALSE, New)
    /\ shared' = shared \ {p}
    /\ UNCHANGED <<now, uuids, storeVars, file, excl, cmd, started, acked, hiNext,
                   pid_file, notified>>

TxnStep(p) ==
    \/ TOpen(p)
    \/ TLock(p)
    \/ TRead(p)
    \/ TMutate(p)
    \/ TTrunc(p)
    \/ TWrite(p)
    \/ TUnlock(p)

LoadStep(p) ==
    \/ LExists(p)
    \/ LLock(p)
    \/ LRead(p)

\* the clock, for the processes
TickFile ==
    /\ now < MaxTime
    /\ now' = now + 1
    /\ UNCHANGED <<uuids, storeVars, fileVars>>

NextTxn ==
    \/ TickFile
    \/ \E p \in Fg, a \in AddInputs : StartAdd(p, a)
    \/ \E p \in Fg : StartList(p)
    \/ \E p \in Fg : TxnStep(p)
    \/ \E p \in Fg : LoadStep(p)

SpecTxn == Init /\ [][NextTxn]_vars

---------------------------------------------------------------------------
(* SpecCorrupt: the commands of SpecTxn against a backing file found in a  *)
(* given condition: whole, cut short at any point, empty, or with bytes    *)
(* left over behind the document                                           *)

\* the serialization of a Database holding one timer, "tea" added at time 0
OneTimerFile == to_string_pretty(add_timer(New, "tea", 0, TRUE, TRUE, FALSE, 0, 1).db)

\* The contents the file is found with: every prefix of OneTimerFile, from
\* nothing to the whole document, and the document followed by a stray brace
CorruptInputs ==
    { SubSeq(OneTimerFile, 1, k) : k \in 0..Len(OneTimerFile) }
        \cup { OneTimerFile \o <<[tok |-> "}"]>> }

InitCorrupt ==
    /\ now = 0
    /\ uuids = 1
    /\ db = New
    /\ last = [op |-> "new"]
    /\ issued = <<>>
    /\ done = <<>>
    /\ file \in [exists : {TRUE}, bytes : CorruptInputs]
    /\ excl = NoProc
    /\ shared = {}
    /\ pc = [p \in Procs |-> "idle"]
    /\ cmd = [p \in Procs |-> [op |-> "none"]]
    /\ mem = [p \in Procs |-> New]
    /\ out = [p \in Procs |-> [op |-> "none"]]
    /\ started = 0
    /\ acked = <<>>
    /\ hiNext = PersistedNext(file.bytes, 1)
    /\ pid_file = NoProc
    /\ notified = {}

SpecCorrupt == InitCorrupt /\ [][NextTxn]_vars

\* A process running with_transaction dies (killed, power lost): its locks
\* go with it and the file stays as it is; a death during write_all leaves
\* the part of the content written so far
Crash(p) ==
    /\ pc[p] \in {"t_open", "t_lock", "t_read", "t_mutate", "t_trunc", "t_write", "t_unlock"}
    /\ \E k \in 0..Len(to_string_pretty(mem[p])) :
          /\ pc[p] = "t_write" => k < Len(to_string_pretty(mem[p]))
          /\ pc[p] # "t_write" => k = 0
          /\ file' = [file EXCEPT !.bytes =
                        overwrite(file.bytes, SubSeq(to_string_pretty(mem[p]), 1, k))]
    /\ excl' = IF excl = p THEN NoProc ELSE excl
    /\ shared' = shared \ {p}
    /\ out' = [out EXCEPT ![p] =
                 [op |-> "crashed",
                  at |-> pc[p],
                  pre |-> IF excl = p THEN cmd[p].pre ELSE file.bytes,
                  post |-> IF pc[p] \in {"t_trunc", "t_write", "t_unlock"}
                           THEN to_string_pretty(mem[p])
                           ELSE IF excl = p THEN cmd[p].pre ELSE file.bytes,
                  left |-> file'.bytes]]
    /\ pc' = [pc EXCEPT ![p] = "idle"]
    /\ UNCHANGED <<now, uuids, storeVars, cmd, mem, started, acked, hiNext,
                   pid_file, notified>>

NextCrash ==
    \/ NextTxn
    \/ \E p \in Fg : Crash(p)

SpecCrash == Init /\ [][NextCrash]_vars

---------------------------------------------------------------------------
(* The daemon (src/src/daemon.rs run_daemon): one iteration of its loop    *)

\* a loop body that completes every expired timer, recurring or not
RECURSIVE handle_expired_complete_all(_, _, _)
handle_expired_complete_all(d, expired, t) ==
    IF expired = <<>>
    THEN d
    ELSE handle_expired_complete_all(complete_timer(d, Head(expired).id).db,
                                     Tail(expired), t)

\* run_daemon: the body of `for timer in &expired`, after the notification
RECURSIVE handle_expired(_, _, _)
handle_expired(d, expired, t) ==
    IF expired = <<>>
    THEN d
    ELSE LET timer == Head(expired)
             d1 == IF timer.recurring
                   THEN reset_timer(add_to_history(d, timer), timer.id, t).db
                   ELSE complete_timer(d, timer.id).db
         IN handle_expired(d1, Tail(expired), t)

\* the notifications of run_daemon's `for timer in &expired`: one attempt
\* (and one retry) per expired timer
RECURSIVE shown(_)
shown(expired) ==
    IF expired = <<>> THEN {} ELSE {Head(expired).uuid} \cup shown(Tail(expired))

\* a sleep without the one-second buffer
sleep_duration_no_buffer(d, t) ==
    LET dues == {d.timers[i].due_at : i \in 1..Len(d.timers)}
        next == CHOOSE x \in dues : \A y \in dues : x <= y
        seconds == IF next - t > 0 THEN (next - t) \div TicksPerSec ELSE 0
        dur == IF d.timers = <<>> THEN Seconds(30)
               ELSE IF seconds > 0 THEN Seconds(seconds)
               ELSE Seconds(1)
    IN Min(dur, Seconds(SECONDS_PER_HOUR))

\* a sleep that rechecks at once when it finds no timer
sleep_duration_no_fallback(d, t) ==
    LET dues == {d.timers[i].due_at : i \in 1..Len(d.timers)}
        next == CHOOSE x \in dues : \A y \in dues : x <= y
        seconds == IF next - t > 0 THEN (next - t) \div TicksPerSec ELSE 0
        dur == IF d.timers = <<>> THEN Seconds(1)
               ELSE IF seconds > 0 THEN Seconds(seconds + 1)
               ELSE Seconds(1)
    IN Min(dur, Seconds(SECONDS_PER_HOUR))

\* run_daemon: the sleep after an iteration that left timers active, in ticks
sleep_duration(d, t) ==
    LET dues == {d.timers[i].due_at : i \in 1..Len(d.timers)}
        next == CHOOSE x \in dues : \A y \in dues : x <= y
        seconds == IF next - t > 0 THEN (next - t) \div TicksPerSec ELSE 0
        dur == IF d.timers = <<>> THEN Seconds(30)
               ELSE IF seconds > 0 THEN Seconds(seconds + 1)
               ELSE Seconds(1)
    IN Min(dur, Seconds(SECONDS_PER_HOUR))

\* main.rs main: a process is started with --daemon-mode
DLaunch(d) ==
    /\ pc[d] = "idle"
    /\ cmd' = [cmd EXCEPT ![d] = [op |-> "daemon", expired |-> <<>>, wake_at |-> 0]]
    /\ pc' = [pc EXCEPT ![d] = "d_pid"]
    /\ UNCHANGED <<now, uuids, storeVars, file, excl, shared, mem, out, started, acked, hiNext,
                   pid_file, notified>>

\* a daemon that enters its loop without writing the pid file
DStart_no_pid(d) ==
    /\ pc[d] = "d_pid"
    /\ pc' = [pc EXCEPT ![d] = "l_exists"]
    /\ UNCHANGED <<now, uuids, storeVars, file, excl, shared, cmd, mem, out, started, acked,
                   hiNext, pid_file, notified>>

\* run_daemon: writes its pid to the pid file, whatever that held, and enters
\* its loop: `let mut db = Database::load()?;`
DStart(d) ==
    /\ pc[d] = "d_pid"
    /\ pid_file' = d
    /\ pc' = [pc EXCEPT ![d] = "l_exists"]
    /\ UNCHANGED <<now, uuids, storeVars, file, excl, shared, cmd, mem, out, started, acked,
                   hiNext, notified>>

\* run_daemon: get_expired_timers, then every expired timer is notified and
\* completed or reset; `if !expired.is_empty() { db.save()?; }`
DExpired(d) ==
    /\ pc[d] = "d_expired"
    /\ LET expired == get_expired_timers(mem[d], now)
       IN /\ mem' = [mem EXCEPT ![d] = handle_expired(mem[d], expired, now)]
          /\ cmd' = [cmd EXCEPT ![d].expired = expired]
          /\ notified' = notified \cup shown(expired)
          /\ pc' = [pc EXCEPT ![d] = IF expired # <<>> THEN "s_open" ELSE "d_empty"]
    /\ UNCHANGED <<now, uuids, storeVars, file, excl, shared, out, started, acked, hiNext,
                   pid_file>>

\* The same part of run_daemon, one statement at a time.
\* `let expired = db.get_expired_timers();`: the snapshot the loop goes
\* through; pre, taken and log keep the Database and the clock of this moment
\* and the notification attempts made since
DTake(d) ==
    /\ pc[d] = "d_expired"
    /\ LET expired == get_expired_timers(mem[d], now)
       IN /\ cmd' = [cmd EXCEPT ![d] =
                       [op |-> "daemon", expired |-> expired, wake_at |-> cmd[d].wake_at,
                        todo |-> expired, pre |-> mem[d], taken |-> now, log |-> <<>>]]
          /\ pc' = [pc EXCEPT ![d] = IF expired # <<>> THEN "d_show" ELSE "d_empty"]
    /\ UNCHANGED <<now, uuids, storeVars, file, excl, shared, mem, out, started, acked, hiNext,
                   pid_file, notified>>

\* `if let Err(e) = notification.show()`: the first attempt for the timer at
\* hand succeeds or fails
DShow(d) ==
    /\ pc[d] = "d_show"
    /\ \E ok \in BOOLEAN :
          /\ cmd' = [cmd EXCEPT ![d].log =
                       Append(@, [uuid |-> Head(cmd[d].todo).uuid, ok |-> ok])]
          /\ pc' = [pc EXCEPT ![d] = IF ok THEN "d_handle" ELSE "d_retry"]
    /\ notified' = notified \cup {Head(cmd[d].todo).uuid}
    /\ UNCHANGED <<now, uuids, storeVars, file, excl, shared, mem, out, started, acked, hiNext,
                   pid_file>>

\* a retry whose failure ends the daemon
DRetry_fatal(d) ==
    /\ pc[d] = "d_retry"
    /\ now' = now + (TicksPerSec + 1) \div 2
    /\ \E ok \in BOOLEAN :
          /\ cmd' = [cmd EXCEPT ![d].log =
                       Append(@, [uuid |-> Head(cmd[d].todo).uuid, ok |-> ok])]
          /\ pc' = [pc EXCEPT ![d] = IF ok THEN "d_handle" ELSE "idle"]
          /\ out' = [out EXCEPT ![d] = IF ok THEN out[d]
                                       ELSE [op |-> "run_daemon", ok |-> FALSE]]
    /\ UNCHANGED <<uuids, storeVars, file, excl, shared, mem, started, acked, hiNext,
                   pid_file, notified>>

\* `thread::sleep(Duration::from_millis(500)); if let Err(e) =
\* notification.show() { eprintln!(..) }`: half a second later the second
\* attempt succeeds or fails, and the loop body goes on either way
DRetry(d) ==
    /\ pc[d] = "d_retry"
    /\ now' = now + (TicksPerSec + 1) \div 2
    /\ \E ok \in BOOLEAN :
          cmd' = [cmd EXCEPT ![d].log =
                    Append(@, [uuid |-> Head(cmd[d].todo).uuid, ok |-> ok])]
    /\ pc' = [pc EXCEPT ![d] = "d_handle"]
    /\ UNCHANGED <<uuids, storeVars, file, excl, shared, mem, out, started, acked, hiNext,
                   pid_file, notified>>

\* `if timer.recurring { add_to_history; reset_timer } else { complete_timer }`
\* for the timer at hand, then the next timer of the snapshot or, after the
\* last, `db.save()?`
DHandle(d) ==
    /\ pc[d] = "d_handle"
    /\ mem' = [mem EXCEPT ![d] = handle_expired(mem[d], <<Head(cmd[d].todo)>>, now)]
    /\ cmd' = [cmd EXCEPT ![d].todo = Tail(@)]
    /\ pc' = [pc EXCEPT ![d] = IF Tail(cmd[d].todo) # <<>> THEN "d_show" ELSE "s_open"]
    /\ UNCHANGED <<now, uuids, storeVars, file, excl, shared, out, started, acked, hiNext,
                   pid_file, notified>>

\* save: OpenOptions write+create+truncate: the open itself empties the file
SOpen(p) ==
    /\ pc[p] = "s_open"
    /\ file' = [exists |-> TRUE, bytes |-> <<>>]
    /\ pc' = [pc EXCEPT ![p] = "s_lock"]
    /\ UNCHANGED <<now, uuids, storeVars, excl, shared, cmd, mem, out, started, acked, hiNext,
                   pid_file, notified>>

\* save: FileExt::lock_exclusive(&file), blocking
SLock(p) ==
    /\ pc[p] = "s_lock"
    /\ CanLockExclusive(p)
    /\ excl' = p
    /\ pc' = [pc EXCEPT ![p] = "s_write"]
    /\ UNCHANGED <<now, uuids, storeVars, file, shared, cmd, mem, out, started, acked, hiNext,
                   pid_file, notified>>

\* save: write_all + flush of the serialized Database, from offset 0
SWrite(p) ==
    /\ pc[p] = "s_write"
    /\ file' = [file EXCEPT !.bytes = overwrite(file.bytes, to_string_pretty(mem[p]))]
    /\ hiNext' = PersistedNext(file'.bytes, hiNext)
    /\ pc' = [pc EXCEPT ![p] = "s_unlock"]
    /\ UNCHANGED <<now, uuids, storeVars, excl, shared, cmd, mem, out, started, acked,
                   pid_file, notified>>

\* save: FileExt::unlock(&file) and Ok(())
SUnlock(p) ==
    /\ pc[p] = "s_unlock"
    /\ excl' = NoProc
    /\ pc' = [pc EXCEPT ![p] = "d_empty"]
    /\ UNCHANGED <<now, uuids, storeVars, file, shared, cmd, mem, out, started, acked, hiNext,
                   pid_file, notified>>

\* a daemon that also ends when one timer is left
DEmpty_keeps_one(d) ==
    /\ pc[d] = "d_empty"
    /\ IF Len(mem[d].timers) <= 1
       THEN /\ pc' = [pc EXCEPT ![d] = "idle"]
            /\ out' = [out EXCEPT ![d] = [op |-> "run_daemon", ok |-> TRUE]]
            /\ pid_file' = NoProc
            /\ UNCHANGED cmd
       ELSE /\ pc' = [pc EXCEPT ![d] = "d_sleep"]
            /\ cmd' = [cmd EXCEPT ![d].wake_at = now + sleep_duration(mem[d], now)]
            /\ UNCHANGED <<out, pid_file>>
    /\ UNCHANGED <<now, uuids, storeVars, file, excl, shared, mem, started, acked, hiNext,
                   notified>>

\* run_daemon: `if db.timers.is_empty() { break; }` leaves the loop, removes
\* the pid file, whoever wrote it, and ends the daemon with Ok(()); otherwise
\* the daemon works out how long to sleep and sleeps
DEmpty(d) ==
    /\ pc[d] = "d_empty"
    /\ IF mem[d].timers = <<>>
       THEN /\ pc' = [pc EXCEPT ![d] = "idle"]
            /\ out' = [out EXCEPT ![d] = [op |-> "run_daemon", ok |-> TRUE]]
            /\ pid_file' = NoProc
            /\ UNCHANGED cmd
       ELSE /\ pc' = [pc EXCEPT ![d] = "d_sleep"]
            /\ cmd' = [cmd EXCEPT ![d].wake_at = now + sleep_duration(mem[d], now)]
            /\ UNCHANGED <<out, pid_file>>
    /\ UNCHANGED <<now, uuids, storeVars, file, excl, shared, mem, started, acked, hiNext,
                   notified>>

\* run_daemon: thread::sleep returns, not before the time it was given has
\* passed, and the loop starts over
DWake(d) ==
    /\ pc[d] = "d_sleep"
    /\ now' = Max(now, cmd[d].wake_at)
    /\ pc' = [pc EXCEPT ![d] = "l_exists"]
    /\ UNCHANGED <<uuids, storeVars, file, excl, shared, cmd, mem, out, started, acked, hiNext,
                   pid_file, notified>>

\* run_daemon: `let sleep_duration = ...; thread::sleep(sleep_duration)`, the
\* computation of the sleep on its own, for the Database the iteration holds
SleepCalc(d) ==
    /\ pc[d] = "d_calc"
    /\ cmd' = [cmd EXCEPT ![d].wake_at = now + sleep_duration(mem[d], now)]
    /\ pc' = [pc EXCEPT ![d] = "d_sleep"]
    /\ UNCHANGED <<now, uuids, storeVars, file, excl, shared, mem, out, started, acked, hiNext,
                   pid_file, notified>>

SaveStep(p) ==
    \/ SOpen(p)
    \/ SLock(p)
    \/ SWrite(p)
    \/ SUnlock(p)

\* one iteration of the loop of daemon d
DaemonStep(d) ==
    \/ DStart(d)
    \/ LoadStep(d)
    \/ DExpired(d)
    \/ SaveStep(d)
    \/ DEmpty(d)

NextDaemon ==
    \/ NextTxn
    \/ DLaunch(Daemon)
    \/ DaemonStep(Daemon)

SpecDaemon == Init /\ [][NextDaemon]_vars

---------------------------------------------------------------------------
(* SpecIter: the daemon alone, its loop one statement at a time, started   *)
(* on a backing file that holds up to two timers, is absent, or is cut     *)

\* the timers the file may hold: a recurring and two one-shot ones
IterInputs ==
    { <<"tea", 1, FALSE, FALSE, TRUE>>,
      <<"egg", 1, TRUE, TRUE, FALSE>>,
      <<"nap", 2, FALSE, FALSE, FALSE>> }

IterLists ==
    {<<>>} \cup {<<a>> : a \in IterInputs}
           \cup {<<a, b>> : a \in IterInputs, b \in IterInputs}

\* the Database after adding the timers of the list at time 0
RECURSIVE IterStore(_)
IterStore(l) ==
    IF l = <<>> THEN New
    ELSE LET a == l[Len(l)]
         IN add_timer(IterStore(SubSeq(l, 1, Len(l) - 1)),
                      a[1], a[2], a[3], a[4], a[5], 0, Len(l)).db

\* the file as the daemon finds it: absent, a whole document, or a document
\* cut after its second token
IterFiles ==
    {[exists |-> FALSE, bytes |-> <<>>]}
        \cup {[exists |-> TRUE, bytes |-> to_string_pretty(IterStore(l))] : l \in IterLists}
        \cup {[exists |-> TRUE, bytes |-> SubSeq(OneTimerFile, 1, 2)]}

InitIter ==
    /\ now = 0
    /\ uuids = 2
    /\ db = New
    /\ last = [op |-> "new"]
    /\ issued = <<>>
    /\ done = <<>>
    /\ file \in IterFiles
    /\ excl = NoProc
    /\ shared = {}
    /\ pc = [p \in Procs |-> "idle"]
    /\ cmd = [p \in Procs |-> [op |-> "none"]]
    /\ mem = [p \in Procs |-> New]
    /\ out = [p \in Procs |-> [op |-> "none"]]
    /\ started = 0
    /\ acked = <<>>
    /\ hiNext = PersistedNext(file.bytes, 1)
    /\ pid_file = NoProc
    /\ notified = {}

\* the clock, up to the end of the observation
IterTick ==
    /\ now < MaxIterTime
    /\ now' = now + 1
    /\ UNCHANGED <<uuids, storeVars, fileVars>>

\* the sleeps that end within the observation
IterWake ==
    /\ pc[Daemon] = "d_sleep"
    /\ cmd[Daemon].wake_at <= MaxIterTime
    /\ DWake(Daemon)

NextIter ==
    \/ IterTick
    \/ DLaunch(Daemon)
    \/ DStart(Daemon)
    \/ LoadStep(Daemon)
    \/ DTake(Daemon)
    \/ DShow(Daemon)
    \/ DRetry(Daemon)
    \/ DHandle(Daemon)
    \/ SaveStep(Daemon)
    \/ DEmpty(Daemon)
    \/ IterWake

SpecIter == InitIter /\ [][NextIter]_vars

---------------------------------------------------------------------------
(* SpecLocks: the daemon of SpecIter and one foreground process running    *)
(* with_transaction and load against the same file                         *)

\* the file as the two find it: absent, holding a recurring or a one-shot
\* timer, or cut
LockFiles ==
    {[exists |-> FALSE, bytes |-> <<>>],
     [exists |-> TRUE, bytes |-> to_string_pretty(IterStore(<<<<"tea", 1, FALSE, FALSE, TRUE>>>>))],
     [exists |-> TRUE, bytes |-> to_string_pretty(IterStore(<<<<"egg", 1, TRUE, TRUE, FALSE>>>>))],
     [exists |-> TRUE, bytes |-> SubSeq(OneTimerFile, 1, 2)]}

\* the arguments of the foreground add_timer: accepted, and refused by the
\* mutation
LockInputs ==
    { <<"tea", 0, TRUE, TRUE, FALSE>>,
      <<"sabbatical", MAX_DURATION_SECONDS + 1, FALSE, FALSE, FALSE>> }

InitLocks ==
    /\ InitIter
    /\ file \in LockFiles

NextLocks ==
    \/ DLaunch(Daemon)
    \/ DStart(Daemon)
    \/ LoadStep(Daemon)
    \/ DTake(Daemon)
    \/ DShow(Daemon)
    \/ DRetry(Daemon)
    \/ DHandle(Daemon)
    \/ SaveStep(Daemon)
    \/ DEmpty(Daemon)
    \/ IterWake
    \/ \E a \in LockInputs : StartAdd("fg1", a)
    \/ StartList("fg1")
    \/ TxnStep("fg1")
    \/ LoadStep("fg1")

SpecLocks == InitLocks /\ [][NextLocks]_vars

---------------------------------------------------------------------------
(* SpecSleep: the daemon's computation of its sleep, applied to Databases  *)
(* of zero to three timers at several readings of the clock                *)

\* durations, in seconds, of the timers the computation is given
SleepDurations == {5, 10, 2700, 7200, 10800}

\* the lists of durations: none, one, two, and the three of the daemon's
\* documented example
SleepLists ==
    {<<>>} \cup {<<a>> : a \in SleepDurations}
           \cup {<<a, b>> : a \in SleepDurations, b \in SleepDurations}
           \cup {<<10, 2700, 7200>>}

\* the Database holding one timer per duration of the list, all added at t0
RECURSIVE SleepStore(_, _)
SleepStore(l, t0) ==
    IF l = <<>> THEN New
    ELSE add_timer(SleepStore(SubSeq(l, 1, Len(l) - 1), t0),
                   "nap", l[Len(l)], FALSE, FALSE, FALSE, t0, Len(l)).db

\* the readings of the clock when the sleep is computed: at the creation of
\* the timers, a tick later, 10 seconds later and a tick before that
SleepNows == {0, 1, Seconds(10) - 1, Seconds(10)}

InitSleep ==
    /\ now \in SleepNows
    /\ uuids = 3
    /\ db = New
    /\ last = [op |-> "new"]
    /\ issued = <<>>
    /\ done = <<>>
    /\ file = [exists |-> FALSE, bytes |-> <<>>]
    /\ excl = NoProc
    /\ shared = {}
    /\ pc = [p \in Procs |-> IF p = Daemon THEN "d_calc" ELSE "idle"]
    /\ cmd = [p \in Procs |-> IF p = Daemon
                              THEN [op |-> "daemon", expired |-> <<>>, wake_at |-> 0]
                              ELSE [op |-> "none"]]
    /\ mem \in {[p \in Procs |-> IF p = Daemon THEN SleepStore(l, t0) ELSE New] :
                   l \in SleepLists, t0 \in {0, 1}}
    /\ out = [p \in Procs |-> [op |-> "none"]]
    /\ started = 0
    /\ acked = <<>>
    /\ hiNext = 1
    /\ pid_file = Daemon
    /\ notified = {}

NextSleep ==
    \/ SleepCalc(Daemon)
    \/ DWake(Daemon)

SpecSleep == InitSleep /\ [][NextSleep]_vars

---------------------------------------------------------------------------
(* SpecSpawn: foreground commands that start the daemon when they find     *)
(* none running (src/src/daemon.rs ensure_daemon_running)                  *)

\* is_daemon_running, when it could read the pid file: the content parses to
\* a pid other than 0 and the process table holds a process with that pid
is_daemon_running == pid_file \in Daemons /\ pc[pid_file] # "idle"

\* main.rs add_timer: after its transaction committed, the command calls
\* daemon::ensure_daemon_running()
EnsureAfterAdd(p) ==
    /\ pc[p] = "idle"
    /\ out[p].op = "with_transaction"
    /\ out[p].ok
    /\ out' = [out EXCEPT ![p] = [op |-> "add_timer", ok |-> TRUE, ret |-> out[p].ret]]
    /\ pc' = [pc EXCEPT ![p] = "e_check"]
    /\ UNCHANGED <<now, uuids, storeVars, file, excl, shared, cmd, mem, started, acked, hiNext,
                   pid_file, notified>>

\* main.rs start_daemon (`break daemon`): a foreground command starts
\* daemon::start_daemon_process()
StartDaemonCmd(p) ==
    /\ pc[p] = "idle"
    /\ started < MaxCmds
    /\ started' = started + 1
    /\ cmd' = [cmd EXCEPT ![p] = [op |-> "daemon_cmd"]]
    /\ pc' = [pc EXCEPT ![p] = "e_check2"]
    /\ UNCHANGED <<now, uuids, storeVars, file, excl, shared, mem, out, acked, hiNext,
                   pid_file, notified>>

\* the error of fs::read_to_string on a pid file that is no longer there,
\* returned by `?` through every caller up to main
NotFound == [op |-> "is_daemon_running", ok |-> FALSE, err |-> "NotFound"]

\* ensure_daemon_running: `if !is_daemon_running()? {`, the first half of
\* is_daemon_running: `if !pid_file.exists() { return Ok(false); }`
ECheck(p) ==
    /\ pc[p] = "e_check"
    /\ pc' = [pc EXCEPT ![p] = IF pid_file = NoProc THEN "e_check2" ELSE "e_read"]
    /\ UNCHANGED <<now, uuids, storeVars, file, excl, shared, cmd, mem, out, started, acked,
                   hiNext, pid_file, notified>>

\* ... and its second half: read_to_string(&pid_file)?, the parse, and the
\* look into the process table
ERead(p) ==
    /\ pc[p] = "e_read"
    /\ IF pid_file = NoProc
       THEN /\ pc' = [pc EXCEPT ![p] = "idle"]
            /\ out' = [out EXCEPT ![p] = NotFound]
       ELSE IF is_daemon_running
       THEN /\ pc' = [pc EXCEPT ![p] = "idle"]
            /\ out' = [out EXCEPT ![p] = [op |-> "ensure_daemon_running", spawned |-> FALSE]]
       ELSE /\ pc' = [pc EXCEPT ![p] = "e_check2"]
            /\ UNCHANGED out
    /\ UNCHANGED <<now, uuids, storeVars, file, excl, shared, cmd, mem, started, acked, hiNext,
                   pid_file, notified>>

\* start_daemon_process: `if is_daemon_running()? { return Ok(()); }`, the
\* first half of is_daemon_running
ECheck2(p) ==
    /\ pc[p] = "e_check2"
    /\ pc' = [pc EXCEPT ![p] = IF pid_file = NoProc THEN "e_spawn" ELSE "e_read2"]
    /\ UNCHANGED <<now, uuids, storeVars, file, excl, shared, cmd, mem, out, started, acked,
                   hiNext, pid_file, notified>>

\* ... and its second half
ERead2(p) ==
    /\ pc[p] = "e_read2"
    /\ IF pid_file = NoProc
       THEN /\ pc' = [pc EXCEPT ![p] = "idle"]
            /\ out' = [out EXCEPT ![p] = NotFound]
       ELSE IF is_daemon_running
       THEN /\ pc' = [pc EXCEPT ![p] = "idle"]
            /\ out' = [out EXCEPT ![p] = [op |-> "start_daemon_process", spawned |-> FALSE]]
       ELSE /\ pc' = [pc EXCEPT ![p] = "e_spawn"]
            /\ UNCHANGED out
    /\ UNCHANGED <<now, uuids, storeVars, file, excl, shared, cmd, mem, started, acked, hiNext,
                   pid_file, notified>>

\* start_daemon_process: Command::new(exe).arg("--daemon-mode").spawn(): a new
\* daemon process d exists, which has yet to write the pid file
ESpawn(p) ==
    /\ pc[p] = "e_spawn"
    /\ \E d \in Daemons :
          /\ pc[d] = "idle"
          /\ cmd' = [cmd EXCEPT ![d] = [op |-> "daemon", expired |-> <<>>, wake_at |-> 0]]
          /\ pc' = [pc EXCEPT ![d] = "d_pid", ![p] = "idle"]
    /\ out' = [out EXCEPT ![p] = [op |-> "start_daemon_process", spawned |-> TRUE]]
    /\ UNCHANGED <<now, uuids, storeVars, file, excl, shared, mem, started, acked, hiNext,
                   pid_file, notified>>

EnsureStep(p) ==
    \/ EnsureAfterAdd(p)
    \/ ECheck(p)
    \/ ERead(p)
    \/ ECheck2(p)
    \/ ERead2(p)
    \/ ESpawn(p)

NextSpawn ==
    \/ \E p \in Fg, a \in AddInputs : StartAdd(p, a)
    \/ \E p \in Fg : TxnStep(p)
    \/ \E p \in Fg : StartDaemonCmd(p)
    \/ \E p \in Fg : EnsureStep(p)
    \/ \E d \in Daemons : DaemonStep(d)

SpecSpawn == Init /\ [][NextSpawn]_vars

---------------------------------------------------------------------------
(* SpecMarker: one foreground process issuing its commands one after the   *)
(* other, the daemons it spawns, daemons that are killed, and a process    *)
(* table in which the pid of a dead daemon may be given to another process *)

\* what the pid file holds at the start: nothing (no file), an empty or a
\* zero content, or the pid of a daemon that died without removing it
MarkerInputs == {NoProc, "", "0"} \cup Daemons

InitMarker ==
    /\ now = 0
    /\ uuids = 0
    /\ db = New
    /\ last = [op |-> "new"]
    /\ issued = <<>>
    /\ done = <<>>
    /\ file = [exists |-> FALSE, bytes |-> <<>>]
    /\ excl = NoProc
    /\ shared = {}
    /\ pc = [p \in Procs |-> "idle"]
    /\ cmd = [p \in Procs |-> [op |-> "none"]]
    /\ mem = [p \in Procs |-> New]
    /\ out = [p \in Procs |-> [op |-> "none"]]
    /\ started = 0
    /\ acked = <<>>
    /\ hiNext = 1
    /\ pid_file \in MarkerInputs
    /\ notified = {}

\* the daemon process d is killed or crashes: its locks go with it, the pid
\* file stays (run_daemon removes it only after leaving its loop)
DKill(d) ==
    /\ pc[d] \notin {"idle", "foreign"}
    /\ pc' = [pc EXCEPT ![d] = "idle"]
    /\ out' = [out EXCEPT ![d] = [op |-> "run_daemon", ok |-> FALSE]]
    /\ excl' = IF excl = d THEN NoProc ELSE excl
    /\ shared' = shared \ {d}
    /\ UNCHANGED <<now, uuids, storeVars, file, cmd, mem, started, acked, hiNext,
                   pid_file, notified>>

\* the operating system gives the pid of the dead daemon d to a process that
\* is no daemon: sysinfo's System::process(pid) finds a process again
PidReuse(d) ==
    /\ pc[d] = "idle"
    /\ pc' = [pc EXCEPT ![d] = "foreign"]
    /\ UNCHANGED <<now, uuids, storeVars, file, excl, shared, cmd, mem, out, started, acked,
                   hiNext, pid_file, notified>>

\* ... and that process ends
PidFree(d) ==
    /\ pc[d] = "foreign"
    /\ pc' = [pc EXCEPT ![d] = "idle"]
    /\ UNCHANGED <<now, uuids, storeVars, file, excl, shared, cmd, mem, out, started, acked,
                   hiNext, pid_file, notified>>

NextMarker ==
    \/ \E a \in ExpInputs : StartAdd("fg1", a)
    \/ TxnStep("fg1")
    \/ StartDaemonCmd("fg1")
    \/ EnsureStep("fg1")
    \/ \E d \in Daemons : DaemonStep(d)
    \/ \E d \in Daemons : DKill(d)
    \/ \E d \in Daemons : PidReuse(d)
    \/ \E d \in Daemons : PidFree(d)

SpecMarker == InitMarker /\ [][NextMarker]_vars

---------------------------------------------------------------------------
(* SpecLive: one foreground process adding one-shot timers and the daemon  *)
(* running its loop, sleeps included, until no timer is left               *)

\* The arguments of add_timer here: one-shot timers, due at once and due in
\* a second
LiveInputs ==
    { <<"tea", 0, TRUE, TRUE, FALSE>>,
      <<"egg", 1, FALSE, TRUE, FALSE>> }

NextLive ==
    \/ TickFile
    \/ \E a \in LiveInputs : StartAdd("fg1", a)
    \/ TxnStep("fg1")
    \/ DLaunch(Daemon)
    \/ DaemonStep(Daemon)
    \/ DWake(Daemon)

\* the daemon keeps running, its sleeps end, and time advances
SpecLive ==
    /\ Init
    /\ [][NextLive]_vars
    /\ WF_vars(DaemonStep(Daemon))
    /\ WF_vars(DWake(Daemon))
    /\ WF_vars(TickFile)

---------------------------------------------------------------------------
(* Claims about the Database methods, checked under Spec                   *)

\* A step of Spec that calls the method `op` (Tick alone moves the clock)
Called(op) == last'.op = op /\ now' = now

\* C6: next_id is strictly greater than every id the Database ever issued,
\* and the ids add_timer returns are strictly increasing in the order of the
\* calls, whatever was removed, completed, reset or cleared in between: no
\* id is ever reused.
C6_IdsNeverReused ==
    /\ \A k \in 1..Len(issued) : issued[k] < db.next_id
    /\ \A j, k \in 1..Len(issued) : j < k => issued[j] < issued[k]
    /\ \A k \in 1..Len(db.timers) : db.timers[k].id < db.next_id
    /\ \A k \in 1..Len(db.history) : db.history[k].id < db.next_id

\* C6 witness: add_timer has just returned an id while an id issued earlier
\* is no longer in the active list (it was removed, completed or cleared).
C6_Witness ==
    /\ last.op = "add_timer"
    /\ last.ret.ok
    /\ \E k \in 1..Len(issued) :
          /\ issued[k] < last.ret.timer.id
          /\ position(db.timers, issued[k]) = 0

\* C8: for a duration d <= MAX_DURATION_SECONDS add_timer succeeds; the
\* returned timer has id = next_id before the call, duration_seconds = d,
\* due_at - created_at = d seconds, the given message and flags; it is
\* appended at the end of the active list, next_id grows by exactly one and
\* history and the other timers are unchanged.
C8_AddTimerContract ==
    [][ (Called("add_timer") /\ last'.args[2] <= MAX_DURATION_SECONDS) =>
            /\ last'.ret.ok
            /\ LET t == last'.ret.timer
                   a == last'.args
               IN /\ t.id = db.next_id
                  /\ t.message = a[1]
                  /\ t.duration_seconds = a[2]
                  /\ t.due_at - t.created_at = a[2] * TicksPerSec
                  /\ t.urgent = a[3] /\ t.sound = a[4] /\ t.recurring = a[5]
                  /\ db'.timers = db.timers \o <<t>>
                  /\ db'.next_id = db.next_id + 1
                  /\ db'.history = db.history ]_vars

\* C8 witness: add_timer has succeeded with the maximum duration on a
\* Database that already held an active timer and a history entry.
C8_Witness ==
    /\ last.op = "add_timer"
    /\ last.ret.ok
    /\ last.args[2] = MAX_DURATION_SECONDS
    /\ Len(db.timers) >= 2
    /\ db.timers[Len(db.timers)] = last.ret.timer
    /\ db.history # <<>>

\* C9: for a duration d > MAX_DURATION_SECONDS add_timer fails with the
\* duration-too-large error and leaves the Database unchanged (no timer
\* appended, next_id and history the same); MAX_DURATION_SECONDS itself and
\* everything below it is accepted.
C9_DurationTooLarge ==
    [][ Called("add_timer") =>
            IF last'.args[2] > MAX_DURATION_SECONDS
            THEN /\ ~last'.ret.ok
                 /\ last'.ret.err = "Duration too large"
                 /\ db' = db
            ELSE last'.ret.ok ]_vars

\* C9 witness: add_timer has just been refused on a Database that holds an
\* active timer of exactly the maximum duration.
C9_Witness ==
    /\ last.op = "add_timer"
    /\ ~last.ret.ok
    /\ last.args[2] = MAX_DURATION_SECONDS + 1
    /\ \E k \in 1..Len(db.timers) :
          db.timers[k].duration_seconds = MAX_DURATION_SECONDS

\* C10: for an id in the active list, complete_timer(id) yields the same
\* Database and the same returned timer as remove_timer(id) followed by
\* add_to_history of the removed timer; the active count drops by exactly
\* one and history gains exactly that timer at index 0.
C10_CompleteIsRemoveThenHistory ==
    /\ [](\A id \in Ids(db) :
            position(db.timers, id) # 0 =>
                LET c == complete_timer(db, id)
                    r == remove_timer(db, id)
                IN /\ c.ret = r.ret
                   /\ c.db = add_to_history(r.db, r.ret[1]))
    /\ [][ (Called("complete_timer") /\ position(db.timers, last'.id) # 0) =>
            /\ Len(last'.ret) = 1
            /\ last'.ret[1].id = last'.id
            /\ Len(db'.timers) = Len(db.timers) - 1
            /\ db'.history = <<last'.ret[1]>> \o db.history
            /\ db'.next_id = db.next_id ]_vars

\* C10 witness: complete_timer has just moved the first of two active
\* timers to the front of a non-empty history.
C10_Witness ==
    /\ last.op = "complete_timer"
    /\ Len(last.ret) = 1
    /\ Len(db.history) >= 2
    /\ db.history[1] = last.ret[1]
    /\ db.timers # <<>>
    /\ db.timers[1].id > last.id

\* C12: every active timer has due_at = created_at + duration_seconds; a
\* method other than add_timer and reset_timer leaves every remaining active
\* timer as it was, timestamps included.
C12_DueAtDerivable ==
    /\ [](\A i \in 1..Len(db.timers) :
             db.timers[i].due_at =
                 db.timers[i].created_at + Seconds(db.timers[i].duration_seconds))
    /\ [][ (now' = now /\ last'.op \notin {"add_timer", "reset_timer"}) =>
             \A i \in 1..Len(db'.timers) :
                 \E j \in 1..Len(db.timers) : db'.timers[i] = db.timers[j] ]_vars

\* a timer of a year, reset after the clock moved on
C12_Witness ==
    /\ last.op = "reset_timer"
    /\ last.ret # None
    /\ last.ret[1].duration_seconds = MAX_DURATION_SECONDS
    /\ last.ret[1].created_at > 0
    /\ position(db.timers, last.id) # 0

\* What reset_timer(id) leaves alone when id is active: the timer's other
\* fields and its place, every other timer, history, next_id
ResetFrame(id) ==
    LET pos == position(db.timers, id)
        old == db.timers[pos]
        new == db'.timers[pos]
    IN /\ new = [old EXCEPT !.created_at = new.created_at, !.due_at = new.due_at]
       /\ db' = [db EXCEPT !.timers[pos] = new]
       /\ last'.ret = Some(new)

\* C13 (as claimed): reset_timer(id) on an active id strictly increases
\* created_at and due_at, to now and now + duration_seconds, returns the
\* updated copy and changes nothing else.
C13_ResetStrictlyIncreases ==
    [][ \A id \in Ids(db) :
          (Called("reset_timer") /\ last'.id = id /\ position(db.timers, id) # 0) =>
             LET pos == position(db.timers, id)
             IN /\ db'.timers[pos].created_at > db.timers[pos].created_at
                /\ db'.timers[pos].due_at > db.timers[pos].due_at
                /\ db'.timers[pos].created_at = now
                /\ db'.timers[pos].due_at = now + Seconds(db.timers[pos].duration_seconds)
                /\ ResetFrame(id) ]_vars

\* C13 (amended): reset_timer(id) on an active id sets created_at to the
\* clock reading and due_at to that plus duration_seconds, so both strictly
\* increase when the clock reads later than the timer's created_at, and are
\* unchanged when it reads the same; it returns the updated copy and changes
\* nothing else.
C13_ResetRestamps ==
    [][ \A id \in Ids(db) :
          (Called("reset_timer") /\ last'.id = id /\ position(db.timers, id) # 0) =>
             LET pos == position(db.timers, id)
             IN /\ db'.timers[pos].created_at = now
                /\ db'.timers[pos].due_at = now + Seconds(db.timers[pos].duration_seconds)
                /\ now > db.timers[pos].created_at =>
                      /\ db'.timers[pos].created_at > db.timers[pos].created_at
                      /\ db'.timers[pos].due_at > db.timers[pos].due_at
                /\ now = db.timers[pos].created_at => db'.timers[pos] = db.timers[pos]
                /\ ResetFrame(id) ]_vars

\* timer 1 of two timers made at the start, reset after the clock moved on
C13_Witness ==
    /\ last.op = "reset_timer"
    /\ last.id = 1
    /\ last.ret # None
    /\ last.ret[1].created_at > 0
    /\ Len(db.timers) = 2
    /\ db.timers[1] = last.ret[1]
    /\ db.timers[2].created_at = 0

\* C14: reset_timer, remove_timer and complete_timer with an id that is not
\* active, an id found only in history included, return None and leave the
\* Database as it was.
C14_AbsentIdIsNoOp ==
    [][ \A id \in Ids(db) :
          ( /\ Called("reset_timer") \/ Called("remove_timer") \/ Called("complete_timer")
            /\ last'.id = id
            /\ \A i \in 1..Len(db.timers) : db.timers[i].id # id ) =>
             /\ last'.ret = None
             /\ db' = db ]_vars

\* complete_timer of an id that is in history and not active
C14_Witness ==
    /\ last.op = "complete_timer"
    /\ last.ret = None
    /\ db.timers # <<>>
    /\ \E k \in 1..Len(db.history) : db.history[k].id = last.id

\* C15: remove_timer(id) on an active id removes that timer only, returns
\* it, keeps the order of the others and leaves history and next_id alone.
C15_RemoveLeavesHistory ==
    [][ \A id \in Ids(db) :
          (Called("remove_timer") /\ last'.id = id
              /\ \E i \in 1..Len(db.timers) : db.timers[i].id = id) =>
             \E i \in 1..Len(db.timers) :
                /\ db.timers[i].id = id
                /\ last'.ret = Some(db.timers[i])
                /\ Len(db'.timers) = Len(db.timers) - 1
                /\ \A j \in 1..Len(db'.timers) :
                      db'.timers[j] = IF j < i THEN db.timers[j] ELSE db.timers[j + 1]
                /\ db'.history = db.history
                /\ db'.next_id = db.next_id ]_vars

\* the first of two timers removed, the second one stays, nothing in history
C15_Witness ==
    /\ last.op = "remove_timer"
    /\ last.ret # None
    /\ last.ret[1].id = 1
    /\ Len(db.timers) = 1
    /\ db.timers[1].id = 2
    /\ db.history = <<>>

\* C16: clear_all empties the active list and leaves history and next_id
\* alone; clear_history empties history and leaves the active list and
\* next_id alone.
C16_ClearsAreSeparate ==
    [][ /\ Called("clear_all") =>
             /\ db'.timers = <<>>
             /\ db'.history = db.history
             /\ db'.next_id = db.next_id
        /\ Called("clear_history") =>
             /\ db'.history = <<>>
             /\ db'.timers = db.timers
             /\ db'.next_id = db.next_id ]_vars

\* clear_all after two timers were issued, one of them completed
C16_Witness ==
    /\ last.op = "clear_all"
    /\ db.timers = <<>>
    /\ Len(issued) = 2
    /\ Len(db.history) = 1
    /\ ~db.history[1].recurring

---------------------------------------------------------------------------
(* Claims about with_transaction and load, checked under SpecTxn           *)

\* p is between acquiring the exclusive lock and the end of with_transaction
InTransaction(p) == pc[p] \in {"t_read", "t_mutate", "t_trunc", "t_write", "t_unlock"}

\* the Database persisted by the first k committed add transactions, as a
\* reader gets it
AfterCommits(k) ==
    [timers |-> de_timers(ser_timers(SubSeq(acked, 1, k)), 0, k),
     history |-> <<>>,
     next_id |-> k + 1]

\* C1: the lock-read-mutate-write sections of concurrent with_transaction
\* calls never overlap and no update is lost: whenever no write is under
\* way the file holds every committed increment (the k-th committed add got
\* id k and next_id = k + 1), and a load() that reads after commits were
\* made returns exactly that state.
C1_NoLostUpdate ==
    /\ \A p, q \in Procs : p # q => ~(InTransaction(p) /\ InTransaction(q))
    /\ \A k \in 1..Len(acked) : acked[k].id = k
    /\ ((\A p \in Procs : pc[p] # "t_write") /\ acked # <<>>) =>
            /\ from_str(file.bytes).ok
            /\ from_str(file.bytes).db = AfterCommits(Len(acked))
    /\ \A p \in Procs :
          (out[p].op = "load" /\ out[p].commits > 0) =>
               /\ out[p].ok
               /\ out[p].db.next_id = out[p].commits + 1
               /\ Len(out[p].db.timers) = out[p].commits
               /\ \A k \in 1..Len(out[p].db.timers) : out[p].db.timers[k].id = k

\* C1 witness: two increments are committed, the second by a process that
\* still holds the lock while the other process waits for it.
C1_Witness ==
    /\ Len(acked) = 2
    /\ \E p, q \in Fg :
          /\ p # q
          /\ pc[p] = "t_lock"
          /\ pc[q] = "t_unlock"
          /\ from_str(file.bytes).db.next_id = 3

\* C2 (as claimed): every load() returns a Database equal to the state
\* before or after some whole transaction.
C2_LoadSeesWholeTransactions ==
    \A p \in Procs :
        out[p].op = "load" =>
            /\ out[p].ok
            /\ \E k \in 0..Len(acked) : out[p].db = AfterCommits(k)

\* C4 (as claimed): a with_transaction whose mutation fails returns the
\* error with the lock released and has changed nothing on disk.
C4_FailedMutationLeavesDisk ==
    \A p \in Procs :
        (out[p].op = "with_transaction" /\ ~out[p].ok /\ out[p].err = "mutation") =>
            /\ ~out[p].changed
            /\ (pc[p] = "idle" => excl # p)

---------------------------------------------------------------------------
(* Claims about history, checked under SpecHistory                         *)

\* done[k].id = n + 1 - k for the n timers of done: timers 1..n were handed
\* to history in the order of their ids
DoneInOrder(n) == Len(done) = n /\ \A k \in 1..n : done[k].id = n + 1 - k

\* C11: history never has more than 20 entries and is exactly the (up to) 20
\* timers most recently handed to it, latest first; after timers 1..25 were
\* completed in order it has 20 entries, timer 25 first and timer 6 last.
C11_HistoryIsLatestTwenty ==
    /\ Len(db.history) <= 20
    /\ db.history = SubSeq(done, 1, Min(20, Len(done)))
    /\ DoneInOrder(25) =>
          /\ Len(db.history) = 20
          /\ db.history[1].id = 25
          /\ db.history[20].id = 6

C11_Witness ==
    /\ DoneInOrder(25)
    /\ last.op = "complete_timer"
    /\ db.history[20].id = 6

---------------------------------------------------------------------------
(* Claims about the expired-timers query, checked under SpecExpired        *)

\* the indices of the active timers due at or before t
DueBy(t) == {i \in 1..Len(db.timers) : db.timers[i].due_at <= t}

\* C17: get_expired_timers returns exactly the active timers with
\* due_at <= now, in their order: one due exactly at now is in the result,
\* one due a second after now is not, nothing comes from history; and the
\* query leaves the Database as it was.
C17_ExpiredIsDueByNow ==
    /\ [](last.op = "get_expired_timers" =>
            /\ Len(last.ret) = Cardinality(DueBy(last.at))
            /\ \A i \in DueBy(last.at) :
                  \E k \in 1..Len(last.ret) : last.ret[k] = db.timers[i]
            /\ \A k \in 1..Len(last.ret) :
                  \E i \in DueBy(last.at) : last.ret[k] = db.timers[i]
            /\ \A k, l \in 1..Len(last.ret) :
                  k < l => position(db.timers, last.ret[k].id)
                               < position(db.timers, last.ret[l].id)
            /\ \A i \in 1..Len(db.timers) :
                  /\ db.timers[i].due_at = last.at =>
                        \E k \in 1..Len(last.ret) : last.ret[k] = db.timers[i]
                  /\ db.timers[i].due_at = last.at + Seconds(1) =>
                        \A k \in 1..Len(last.ret) : last.ret[k].id # db.timers[i].id)
    /\ [][Called("get_expired_timers") => db' = db]_vars

\* a query with one timer due exactly then, one due a second later, and an
\* entry in history
C17_Witness ==
    /\ last.op = "get_expired_timers"
    /\ last.at = now
    /\ now > 0
    /\ Len(last.ret) = 1
    /\ \E i, j \in 1..Len(db.timers) :
          /\ db.timers[i].due_at = now
          /\ db.timers[i].created_at < now
          /\ db.timers[j].due_at = now + Seconds(1)
    /\ db.history # <<>>

---------------------------------------------------------------------------
(* Claims about a dying writer, checked under SpecCrash                    *)

\* C5 (as claimed): when the process running with_transaction dies, the
\* file holds the complete content from before the transaction or the
\* complete content the transaction was writing, never anything else.
C5_CrashSafe ==
    \A p \in Procs :
        out[p].op = "crashed" => out[p].left \in {out[p].pre, out[p].post}

---------------------------------------------------------------------------
(* Claims about unreadable content, checked under SpecCorrupt              *)

\* content that stops before the closing brace of the document
Cut(bytes) == bytes # <<>> /\ bytes[Len(bytes)].tok # "}"

\* content that is not a serialized Store
NotAStore(bytes) == ~from_str(bytes).ok \/ Cut(bytes) \/ bytes = <<>>

\* load's read of p finds content that does not parse: it returns the
\* corrupt-state error and the file stays as it is
LoadFailsOnCorrupt(p) ==
    (pc[p] = "l_read" /\ pc'[p] # "l_read" /\ NotAStore(file.bytes)) =>
        /\ out'[p] = [op |-> "load", ok |-> FALSE, err |-> "corrupt",
                      commits |-> Len(acked)]
        /\ file' = file

\* with_transaction's read of p returns the corrupt-state error: the
\* mutation is not run (no uuid drawn, no Database changed), the lock is
\* released and the file stays as it is
TxnFailsAsCorrupt(p) ==
    /\ out'[p].op = "with_transaction"
    /\ ~out'[p].ok
    /\ out'[p].err = "corrupt"
    /\ pc'[p] = "idle"
    /\ excl' # p
    /\ mem' = mem
    /\ uuids' = uuids
    /\ acked' = acked
    /\ file' = file

\* with_transaction's open leaves a file that is there as it is
OpenKeepsFile(p) ==
    (pc[p] = "t_open" /\ pc'[p] = "t_lock" /\ file.exists) => file' = file

\* C18 (as claimed): whenever the content of the backing file is not a valid
\* serialized Store, load and with_transaction fail with the corrupt-state
\* error, the mutation is not run, and the file is left as it is.
C18_InvalidBytesFail ==
    [][ \A p \in Fg :
          /\ LoadFailsOnCorrupt(p)
          /\ OpenKeepsFile(p)
          /\ (pc[p] = "t_read" /\ pc'[p] # "t_read"
                /\ NotAStore(file.bytes)) => TxnFailsAsCorrupt(p) ]_vars

\* C18 (amended): whenever the backing file is not empty and its content is
\* not a valid serialized Store, load and with_transaction fail with the
\* corrupt-state error, the mutation is not run, and the file is left as it
\* is; load fails in the same way on a zero-length file, with_transaction
\* takes a zero-length file for a new Store and goes on.
C18_CorruptStateFails ==
    [][ \A p \in Fg :
          /\ LoadFailsOnCorrupt(p)
          /\ OpenKeepsFile(p)
          /\ (pc[p] = "t_read" /\ pc'[p] # "t_read"
                /\ NotAStore(file.bytes) /\ file.bytes # <<>>) => TxnFailsAsCorrupt(p)
          /\ (pc[p] = "t_read" /\ pc'[p] # "t_read"
                /\ file.bytes = <<>>) => (pc'[p] = "t_mutate" /\ mem'[p] = New) ]_vars

\* a cut file on which one process's load and the other's with_transaction
\* have both failed
C18_Witness ==
    /\ file.bytes # <<>>
    /\ ~from_str(file.bytes).ok
    /\ \E p, q \in Fg :
          /\ out[p] = [op |-> "load", ok |-> FALSE, err |-> "corrupt", commits |-> 0]
          /\ out[q].op = "with_transaction"
          /\ ~out[q].ok
          /\ out[q].err = "corrupt"
          /\ ~out[q].changed

---------------------------------------------------------------------------
(* Claims about save and the daemon, checked under SpecDaemon              *)

InSave(p) == pc[p] \in {"s_open", "s_lock", "s_write", "s_unlock"}

\* C3 (as claimed): save() changes the content of the file only while it
\* holds the exclusive lock, and when its write is done the content is
\* exactly the serialization of the saved Database.
C3_SaveIsLockGuarded ==
    /\ [][ \A p \in Procs :
             (InSave(p) /\ pc'[p] # pc[p] /\ file'.bytes # file.bytes) => excl = p ]_vars
    /\ [](\A p \in Procs :
             pc[p] = "s_unlock" => file.bytes = to_string_pretty(mem[p]))

\* C7 (as claimed): no two committed add_timer transactions were given the
\* same id, and the persisted next_id never goes down.
C7_IdsUniqueAcrossProcesses ==
    /\ \A j, k \in 1..Len(acked) : j # k => acked[j].id # acked[k].id
    /\ from_str(file.bytes).ok => from_str(file.bytes).db.next_id >= hiNext

---------------------------------------------------------------------------
(* Claims about starting the daemon, checked under SpecSpawn               *)

\* the daemon processes that are in the loop of run_daemon
InLoop == {d \in Daemons : pc[d] \notin {"idle", "d_pid"}}

\* C19 (as claimed): there are never two daemon processes in the polling
\* loop at once.
C19_AtMostOneDaemon == Cardinality(InLoop) <= 1

---------------------------------------------------------------------------
(* Claims about the daemon's progress, checked under SpecLive              *)

\* the uuids of the timers of a list
UuidsOf(v) == {v[i].uuid : i \in 1..Len(v)}

\* No foreground command is running or will run, a daemon is running, and
\* the backing file holds a Store whose active timers are the one-shot
\* timers S
QuietWith(S) ==
    /\ started = MaxCmds
    /\ \A p \in Fg : pc[p] = "idle"
    /\ pc[Daemon] # "idle"
    /\ from_str(file.bytes).ok
    /\ UuidsOf(from_str(file.bytes).db.timers) = S
    /\ \A i \in 1..Len(from_str(file.bytes).db.timers) :
          ~from_str(file.bytes).db.timers[i].recurring

\* The daemon has ended with Ok(()), every timer of S was notified and is in
\* the persisted history, and no timer is active
DrainedOf(S) ==
    /\ pc[Daemon] = "idle"
    /\ out[Daemon] = [op |-> "run_daemon", ok |-> TRUE]
    /\ S \subseteq notified
    /\ from_str(file.bytes).ok
    /\ from_str(file.bytes).db.timers = <<>>
    /\ S \subseteq UuidsOf(from_str(file.bytes).db.history)

\* C20 (as claimed): once no further foreground command occurs and every
\* active timer is one-shot, a running daemon eventually has notified every
\* active timer, moved it to history, found the active list empty and ended.
C20_DaemonDrains ==
    \A S \in SUBSET (1..MaxCmds) : QuietWith(S) ~> DrainedOf(S)

---------------------------------------------------------------------------
(* Claims about the daemon's sleep, checked under SpecSleep                *)

\* the sleep the daemon has just computed, in ticks
Slept == cmd[Daemon].wake_at - now

\* the earliest due_at among the daemon's active timers
EarliestDue ==
    CHOOSE x \in {mem[Daemon].timers[i].due_at : i \in 1..Len(mem[Daemon].timers)} :
        \A i \in 1..Len(mem[Daemon].timers) : x <= mem[Daemon].timers[i].due_at

\* C22: with at least one active timer the sleep is min(3600, s) seconds,
\* where s is the whole seconds until the earliest due_at plus one when that
\* time is still ahead and 1 otherwise; so the sleep lies between 1 and 3600
\* seconds and, when not clamped, ends at or after the earliest due_at.
C22_SleepUntilEarliestDue ==
    (pc[Daemon] = "d_sleep" /\ mem[Daemon].timers # <<>>) =>
        LET until == EarliestDue - now
            s == IF until > 0 THEN (until \div TicksPerSec) + 1 ELSE 1
        IN /\ Slept = Seconds(IF s < 3600 THEN s ELSE 3600)
           /\ Slept >= Seconds(1)
           /\ Slept <= Seconds(3600)
           /\ Slept < Seconds(3600) => now + Slept >= EarliestDue

\* timers due in 10 s, 45 min and 2 h give a sleep of 11 s
C22_Witness ==
    /\ pc[Daemon] = "d_sleep"
    /\ Len(mem[Daemon].timers) = 3
    /\ EarliestDue - now = Seconds(10)
    /\ Slept = Seconds(11)

\* C23: with no active timer the computation yields 30 seconds.
C23_NoTimerSleepsThirty ==
    (pc[Daemon] = "d_sleep" /\ mem[Daemon].timers = <<>>) => Slept = Seconds(30)

C23_Witness ==
    /\ pc[Daemon] = "d_sleep"
    /\ mem[Daemon].timers = <<>>
    /\ Slept = Seconds(30)

---------------------------------------------------------------------------
(* Claims about the daemon's loop, checked under SpecIter                  *)

EndedOk == [op |-> "run_daemon", ok |-> TRUE]

\* C21: the daemon leaves its loop exactly at an iteration whose active list
\* is empty after the expired timers were handled: with an empty list it
\* ends, removes the pid file and returns Ok(()); with a non-empty list it
\* sleeps; it never sleeps with an empty list and never ends through the
\* loop's exit with a timer active. (Ends through an error are C24's.)
C21_EndsExactlyWhenEmpty ==
    [][\A d \in Daemons :
          /\ (pc[d] = "d_empty" /\ pc'[d] # "d_empty") =>
                IF mem[d].timers = <<>>
                THEN pc'[d] = "idle" /\ out'[d] = EndedOk /\ pid_file' = NoProc
                ELSE pc'[d] = "d_sleep"
          /\ (pc[d] # "d_sleep" /\ pc'[d] = "d_sleep") => mem[d].timers # <<>>
          /\ (pc[d] # "idle" /\ pc'[d] = "idle" /\ out'[d] = EndedOk) =>
                pc[d] = "d_empty" /\ mem[d].timers = <<>>]_vars

\* the daemon has ended after an iteration that handled an expired timer
C21_Witness ==
    /\ pc[Daemon] = "idle"
    /\ out[Daemon] = EndedOk
    /\ mem[Daemon].timers = <<>>
    /\ mem[Daemon].history # <<>>
    /\ pid_file = NoProc

EndedErr == [op |-> "run_daemon", ok |-> FALSE]

InList(x, v) == \E i \in 1..Len(v) : v[i] = x

\* the loop `for timer in &expired` of daemon d ends with this step
LoopEnds(d) == pc[d] = "d_handle" /\ pc'[d] = "s_open"

\* C29: in one iteration every timer that was due when the snapshot was
\* taken is in history with the timestamps it had; if recurring it is still
\* active with the same id and uuid, stamped with the clock of its reset and
\* due duration_seconds later, otherwise it is no longer active; the expired
\* timers are at the front of history, ahead of the earlier entries; timers
\* that were not due are unchanged.
C29_IterationHandlesExpired ==
    [][\A d \in Daemons : LoopEnds(d) =>
          LET pre == cmd[d].pre
              post == mem'[d]
              due == {i \in 1..Len(pre.timers) : pre.timers[i].due_at <= cmd[d].taken}
              k == Cardinality(due)
          IN /\ \A i \in 1..Len(pre.timers) :
                   LET x == pre.timers[i]
                   IN IF i \in due
                      THEN /\ InList(x, SubSeq(post.history, 1, k))
                           /\ IF x.recurring
                              THEN \E j \in 1..Len(post.timers) :
                                      LET y == post.timers[j]
                                      IN /\ y = [x EXCEPT !.created_at = y.created_at,
                                                          !.due_at = y.due_at]
                                         /\ y.created_at \in cmd[d].taken..now'
                                         /\ y.due_at = y.created_at
                                                         + Seconds(y.duration_seconds)
                              ELSE \A j \in 1..Len(post.timers) : post.timers[j].id # x.id
                      ELSE InList(x, post.timers)
             /\ Len(post.timers) =
                   Cardinality({i \in 1..Len(pre.timers) :
                                   i \notin due \/ pre.timers[i].recurring})
             /\ Len(post.history) = Min(MAX_HISTORY, k + Len(pre.history))
             /\ SubSeq(post.history, k + 1, Len(post.history))
                   = SubSeq(pre.history, 1, Len(post.history) - k)
             /\ post.next_id = pre.next_id]_vars

\* an iteration that found history entries of earlier iterations has handled
\* a recurring and a one-shot timer
C29_Witness ==
    /\ pc[Daemon] = "s_open"
    /\ Len(cmd[Daemon].expired) = 2
    /\ cmd[Daemon].expired[1].recurring # cmd[Daemon].expired[2].recurring
    /\ cmd[Daemon].pre.history # <<>>
    /\ Len(mem[Daemon].timers) = 1
    /\ Len(mem[Daemon].history) = Len(cmd[Daemon].pre.history) + 2

\* the notification attempts of this iteration for the timer with uuid u
AttemptsFor(d, u) == SelectSeq(cmd[d].log, LAMBDA a : a.uuid = u)

---------------------------------------------------------------------------
(* Claims about serialization, checked under SpecExpired                   *)

\* a timer with its timestamps at the whole second they are persisted with
WholeSeconds(t) ==
    [t EXCEPT !.created_at = (@ \div TicksPerSec) * TicksPerSec,
              !.due_at = (@ \div TicksPerSec) * TicksPerSec]

\* C28: serializing the Store and deserializing the result gives the same
\* active timers in the same order, equal in every field with the timestamps
\* at whole-second resolution, the same history in the same order, and the
\* same next_id.
C28_RoundTrip ==
    LET r == from_str(to_string_pretty(db))
    IN /\ r.ok
       /\ r.db.next_id = db.next_id
       /\ Len(r.db.timers) = Len(db.timers)
       /\ \A i \in 1..Len(db.timers) : r.db.timers[i] = WholeSeconds(db.timers[i])
       /\ Len(r.db.history) = Len(db.history)
       /\ \A i \in 1..Len(db.history) : r.db.history[i] = WholeSeconds(db.history[i])

\* a Store with history and with an active timer stamped between two whole
\* seconds: what is read back differs from it in that timestamp only
C28_Witness ==
    /\ db.history # <<>>
    /\ \E i \in 1..Len(db.timers) : db.timers[i].created_at % TicksPerSec # 0
    /\ from_str(to_string_pretty(db)).ok
    /\ from_str(to_string_pretty(db)).db # db
    /\ from_str(to_string_pretty(db)).db.history[1].id = db.history[1].id

---------------------------------------------------------------------------
(* Claims about the pid file, checked under SpecMarker                     *)

\* the daemon processes that are running
Alive == {d \in Daemons : pc[d] \notin {"idle", "foreign"}}

\* is_daemon_running, called by p, returns with this step
Answers(p) == pc[p] \in {"e_check", "e_read", "e_check2", "e_read2"} /\ pc'[p] # pc[p]

\* ... returning Ok(false): the caller goes on towards the spawn
AnswersFalse(p) ==
    \/ pc[p] \in {"e_check", "e_read"} /\ pc'[p] = "e_check2"
    \/ pc[p] \in {"e_check2", "e_read2"} /\ pc'[p] = "e_spawn"

\* ... returning Ok(true): the caller returns without a spawn
AnswersTrue(p) ==
    /\ pc[p] \in {"e_read", "e_read2"}
    /\ pc'[p] = "idle"
    /\ out'[p].op \in {"ensure_daemon_running", "start_daemon_process"}
    /\ ~out'[p].spawned

\* C25 (as claimed): when is_daemon_running is true the two functions spawn
\* nothing and succeed; when it is false they spawn exactly one child and
\* return without waiting for it; and calls made one after the other leave at
\* most one daemon spawned.
C25_EnsureIsIdempotent ==
    /\ [](Cardinality(Alive) <= 1)
    /\ [][\A p \in Fg :
             /\ AnswersTrue(p) => \A d \in Daemons : pc'[d] = pc[d]
             /\ (pc[p] = "e_spawn" /\ pc'[p] # "e_spawn") =>
                   /\ pc'[p] = "idle"
                   /\ out'[p].spawned
                   /\ Cardinality({d \in Daemons : pc[d] = "idle" /\ pc'[d] = "d_pid"}) = 1
                   /\ \A d \in Daemons : pc'[d] # pc[d] => pc[d] = "idle"]_vars

\* C26 (as claimed): is_daemon_running answers false when the pid file is
\* absent, unparsable or zero, and otherwise answers whether the named
\* process is alive; it never returns an error because no daemon is running,
\* also not when an ending daemon removes the file during the call.
C26_NotRunningIsNeverAnError ==
    /\ [](\A p \in Fg : out[p] # NotFound)
    /\ [][\A p \in Fg : Answers(p) =>
             /\ (pc[p] \in {"e_check", "e_check2"} /\ pid_file = NoProc) => AnswersFalse(p)
             /\ (pc[p] \in {"e_read", "e_read2"} /\ pid_file \in {"", "0"}) => AnswersFalse(p)
             /\ (pc[p] \in {"e_read", "e_read2"} /\ pid_file \in Daemons) =>
                   IF pc[pid_file] # "idle" THEN AnswersTrue(p) ELSE AnswersFalse(p)]_vars

\* C27 (as claimed): when the pid file is left over from a daemon that is no
\* longer running, is_daemon_running answers false and the caller goes on to
\* spawn a new daemon.
C27_StaleMarkerSelfCorrects ==
    [][\A p \in Fg :
          (Answers(p) /\ pc[p] \in {"e_read", "e_read2"}
              /\ pid_file \in Daemons /\ pid_file \notin Alive) => AnswersFalse(p)]_vars

---------------------------------------------------------------------------
(* Claims about the locks, checked under SpecLocks                         *)

HoldsLock(p) == excl = p \/ p \in shared

\* p is inside load, save or with_transaction, past the point of locking
InStoreCall(p) ==
    pc[p] \in {"t_read", "t_mutate", "t_trunc", "t_write", "t_unlock",
               "l_read", "s_write", "s_unlock"}

\* C32: a process holds a lock on the Store's file only inside load, save or
\* with_transaction: none while the daemon waits to retry a notification or
\* sleeps between iterations, and none once the operation has returned,
\* whether with a value or with a corrupt-state or mutation error.
C32_NoLockOutsideStoreCalls ==
    \A p \in Procs : HoldsLock(p) => InStoreCall(p)

\* the daemon sleeps and the foreground transaction has returned the error of
\* its mutation: nobody holds a lock
C32_Witness ==
    /\ pc[Daemon] = "d_sleep"
    /\ pc["fg1"] = "idle"
    /\ out["fg1"].op = "with_transaction"
    /\ ~out["fg1"].ok
    /\ excl = NoProc
    /\ shared = {}

---------------------------------------------------------------------------
(* Claims about the daemon's marker file                                   *)

\* C31: a daemon writes the pid file with its own pid before its first load
\* of the Store: the step that leaves the start of run_daemon writes it and
\* goes to the load, and a load is entered only from there or from the sleep
\* that ends an iteration. The step by which run_daemon returns Ok(()) leaves
\* the pid file deleted.
C31_MarkerWrittenFirstDeletedLast ==
    [][\A d \in Daemons :
         /\ (pc[d] = "d_pid" /\ pc'[d] # "d_pid")
               => (pid_file' = d /\ pc'[d] = "l_exists")
         /\ (pc[d] # "l_exists" /\ pc'[d] = "l_exists")
               => (pc[d] = "d_sleep" \/ (pc[d] = "d_pid" /\ pid_file' = d))
         /\ (pc[d] # "idle" /\ pc'[d] = "idle" /\ out'[d] = EndedOk)
               => pid_file' = NoProc]_vars

\* the daemon wrote its pid, notified a timer, found the list empty and left
C31_Witness ==
    /\ pc[Daemon] = "idle"
    /\ out[Daemon] = EndedOk
    /\ notified # {}
    /\ pid_file = NoProc

---------------------------------------------------------------------------
(* Claims about the empty backing file, checked under SpecTxn              *)

\* C35 (as claimed): where with_transaction would start from a fresh empty
\* Store, with the backing file absent or of zero length, load() returns a
\* fresh empty Store too, not an error.
C35_LoadAcceptsEmptyFile ==
    [][\A p \in Fg :
         /\ (pc[p] = "l_exists" /\ pc'[p] = "idle" /\ ~file.exists)
               => (out'[p].ok /\ out'[p].db = New)
         /\ (pc[p] = "l_read" /\ pc'[p] = "idle" /\ file.bytes = <<>>)
               => (out'[p].ok /\ out'[p].db = New)]_vars

---------------------------------------------------------------------------
(* Claims about the daemon's save, checked under SpecDaemon                *)

\* C33 (as claimed): the daemon never undoes a committed transaction: a timer
\* added by a committed transaction is in the active list of the persisted
\* Store for as long as it has not expired (no command of this specification
\* removes or clears anything).
C33_DaemonKeepsCommittedTimers ==
    from_str(file.bytes).ok =>
        \A k \in 1..Len(acked) :
            acked[k].due_at > now =>
                acked[k].uuid \in UuidsOf(from_str(file.bytes).db.timers)

---------------------------------------------------------------------------
(* Claims about the daemon and the commands that start it, checked under   *)
(* SpecSpawn                                                               *)

\* C34 (as claimed): once an add command has committed its timer and its
\* ensure_daemon_running has returned, the timer is not left with no daemon:
\* while it is in the persisted active list some daemon process is running.
C34_CommittedAddIsWatched ==
    \A p \in Fg :
        ( /\ pc[p] = "idle"
          /\ cmd[p].op = "add"
          /\ out[p].op \in {"ensure_daemon_running", "start_daemon_process"}
          /\ from_str(file.bytes).ok
          /\ cmd[p].ret.uuid \in UuidsOf(from_str(file.bytes).db.timers) )
        => Alive # {}

\* C37 (as claimed): a timer that does not recur is notified at most once:
\* no iteration of any daemon notifies a one-shot timer that an iteration has
\* notified before.
C37_NotifiedAtMostOnce ==
    [][\A d \in Daemons :
         (pc[d] = "d_expired" /\ pc'[d] # "d_expired") =>
             \A i \in 1..Len(cmd'[d].expired) :
                 ~cmd'[d].expired[i].recurring =>
                     cmd'[d].expired[i].uuid \notin notified]_vars

\* C38 (as claimed): while a daemon is in its polling loop the pid file names
\* a daemon process that is alive, so that is_daemon_running answers true.
C38_MarkerNamesLiveDaemonWhilePolling ==
    InLoop # {} => is_daemon_running

---------------------------------------------------------------------------
(* Claims about the time of a notification, checked under SpecLive         *)

\* C36 (as claimed): the daemon notifies a timer no earlier than its due_at
\* and no later than one second after it, plus the time its iteration takes
\* (at most MaxTime ticks of the clock here); also a timer that was added
\* while the daemon slept towards a later one.
C36_NotifiedWithinASecond ==
    [][(pc[Daemon] = "d_expired" /\ pc'[Daemon] # "d_expired") =>
          \A i \in 1..Len(cmd'[Daemon].expired) :
              /\ cmd'[Daemon].expired[i].due_at <= now
              /\ now <= cmd'[Daemon].expired[i].due_at + Seconds(1) + MaxTime]_vars

---------------------------------------------------------------------------
(* Claims about the order of the active list, checked under SpecOrder      *)

\* the ids of the list go up strictly from front to back
StrictlyIncreasing(v) == \A i, j \in 1..Len(v) : i < j => v[i].id < v[j].id

\* the list without the entries of the given id
Without(v, id) == SelectSeq(v, LAMBDA x : x.id # id)

\* C39: after every Database method the active list is in strictly
\* increasing order of id, so no two of its timers share an id; reset_timer
\* leaves every timer at its position and the other timers as they were;
\* remove_timer and complete_timer take out the entry of the given id and
\* nothing else, the rest keeping its order.
C39_ActiveListOrdered ==
    [][/\ StrictlyIncreasing(db'.timers)
       /\ Called("reset_timer") =>
             /\ Len(db'.timers) = Len(db.timers)
             /\ \A i \in 1..Len(db.timers) :
                   /\ db'.timers[i].id = db.timers[i].id
                   /\ db.timers[i].id # last'.id => db'.timers[i] = db.timers[i]
       /\ (Called("remove_timer") \/ Called("complete_timer")) =>
             /\ db'.timers = Without(db.timers, last'.id)
             /\ Len(db'.timers) >= Len(db.timers) - 1]_vars

\* the first of two active timers was reset a tick after it was added and is
\* still the first
C39_Witness ==
    /\ last.op = "reset_timer"
    /\ last.id = 1
    /\ Len(db.timers) = 2
    /\ db.timers[1].id = 1
    /\ db.timers[1].created_at = 1
    /\ db.timers[2].id = 2

====
